---- MODULE Spec2Model ----
(***************************************************************************)
(* Model of the kooyapady admin backend: the media routes of                *)
(* src/routes/upload.js (upload, delete, update/rename, reorder) acting on  *)
(* one Folder document, the Cloudinary account and multer's temp            *)
(* directory, and the authentication gate of src/routes/auth.js.            *)
(*                                                                          *)
(* A handler is split at its awaits: every action below is the code        *)
(* between two suspension points.  Each router handles one request at a     *)
(* time, except in SpecRace, where two requests on the Folder overlap.      *)
(* The media and folder requests modelled are those that passed the `auth`  *)
(* middleware mounted in front of their routes.  The folder routes (list,   *)
(* create, rename, reorder-folders) act on the Folder collection.           *)
(***************************************************************************)
EXTENDS Integers, Sequences, FiniteSets, TLC

VARIABLES
    dbImages,    \* persisted Folder.images (sequence of image subdocuments)
    dbVideos,    \* persisted Folder.videos (sequence of video subdocuments)
    cdnImages,   \* public_ids of the image resources held by Cloudinary
    cdnVideos,   \* public_ids of the video resources held by Cloudinary
    nextId,      \* number of public_ids Cloudinary has generated so far
    temp,        \* temp files of the request in flight still in uploads/
    req,         \* the media request in flight
    admins,      \* the Admin collection
    areq,        \* the request in flight on the auth router
    folders,     \* the Folder collection: name and creation time of each document
    freq,        \* the request in flight on the folder routes
    dbVersion,   \* persisted Folder.__v, read where two requests overlap
    racers,      \* the two overlapping requests on the Folder
    inits        \* the two overlapping POST /init-admin requests

vars == <<dbImages, dbVideos, cdnImages, cdnVideos, nextId, temp, req, admins, areq,
          folders, freq, dbVersion, racers, inits>>
mediaVars == <<dbImages, dbVideos, cdnImages, cdnVideos, nextId, temp, req>>
authVars == <<admins, areq>>
folderVars == <<folders, freq>>
raceVars == <<dbVersion, racers, inits>>

----------------------------------------------------------------------------
(* Bounds *)

MaxLen == 3        \* longest stored collection explored
MaxOrder == 2      \* longest arbitrary client order list explored
MaxFiles == 2      \* most files in one upload request
MaxMeta == 2       \* longest label / title list in one upload request
MaxUploads == 4    \* most public_ids Cloudinary generates in one behaviour
MaxStored == 2     \* most entries of a folder when every route is explored
MaxAdmins == 2     \* most Admin documents created in one behaviour
MaxFolders == 2    \* most Folder documents created in one behaviour

----------------------------------------------------------------------------
(* JavaScript values *)

\* the value of a missing object key
Absent == "<absent>"

\* request-body values: undefined, a string, or an array of strings
JsUndef == [t |-> "undefined", s |-> "", a |-> <<>>]
JsStr(x) == [t |-> "string", s |-> x, a |-> <<>>]
JsArr(xs) == [t |-> "array", s |-> "", a |-> xs]

\* Array.isArray(v)
IsArray(v) == v.t = "array"

\* a ?? b
Coalesce(a, b) == IF a.t = "undefined" THEN b ELSE a

\* arr[i] with a 0-based index: undefined past the end
At(xs, i) == IF i + 1 \in DOMAIN xs THEN xs[i + 1] ELSE Absent

\* all sequences over S of length at most n
SeqsUpTo(S, n) == UNION {[1..k -> S] : k \in 0..n}

\* the elements of an array
Range(xs) == {xs[k] : k \in DOMAIN xs}

\* the public_ids of a collection, in order
IdsOf(coll) == [k \in DOMAIN coll |-> coll[k].public_id]

\* xs.includes(x)
Includes(xs, x) == \E k \in DOMAIN xs : xs[k] = x

\* coll.findIndex(e => e.public_id === pid), 1-based, 0 for -1
FindIndex(coll, pid) ==
    IF \E k \in DOMAIN coll : coll[k].public_id = pid
    THEN CHOOSE k \in DOMAIN coll :
            /\ coll[k].public_id = pid
            /\ \A j \in 1..(k - 1) : coll[j].public_id # pid
    ELSE 0

\* variant: the first entry is removed whatever the index (shift for splice)
SpliceFirst(coll, k) == Tail(coll)

\* coll.splice(k, 1)
Splice(coll, k) == [j \in 1..(Len(coll) - 1) |-> IF j < k THEN coll[j] ELSE coll[j + 1]]

----------------------------------------------------------------------------
(* Cloudinary *)

\* the public_ids Cloudinary generates, in the order it generates them
UploadIds == <<"p1", "p2", "p3", "p4", "p5", "p6">>

\* names a client may ask a resource to be renamed to
RenameNames == {"r1"}

\* ids a client may name that no resource ever had
ForeignIds == {"zz"}

\* secure_url of the resource with a public_id
SecureUrl(id) == <<"https", id>>

----------------------------------------------------------------------------
(* Folder subdocuments *)

ImageObj(id, label) == [url |-> SecureUrl(id), public_id |-> id, label |-> label]
VideoObj(id, title) == [url |-> SecureUrl(id), public_id |-> id, title |-> title]

----------------------------------------------------------------------------
(* The request in flight *)

NoResults == [images |-> <<>>, videos |-> <<>>]

NoBody == [imageLabels |-> JsUndef, labels |-> JsUndef, labelsArr |-> JsUndef,
           imageLabelsArr |-> JsUndef, videoTitles |-> JsUndef, videoTitlesArr |-> JsUndef]

IdleReq ==
    [op |-> "none", pc |-> "idle", status |-> 0, folderId |-> "f1",
     files |-> <<>>, body |-> NoBody,
     imageLabels |-> JsUndef, videoTitles |-> JsUndef,
     imageFiles |-> <<>>, videoFiles |-> <<>>, i |-> 0, results |-> NoResults,
     imagesOrder |-> JsUndef, videosOrder |-> JsUndef,
     publicId |-> "", newName |-> Absent, newLabel |-> Absent, newTitle |-> Absent,
     kind |-> "none", index |-> 0, error |-> "none",
     images |-> <<>>, videos |-> <<>>]

\* the folder routes handle no request
IdleFreq ==
    [route |-> "none", pc |-> "idle", status |-> 0, id |-> Absent, name |-> Absent,
     folderIds |-> JsUndef, listing |-> <<>>]

\* one of two overlapping requests before it arrives
IdleRacer ==
    [op |-> "none", pc |-> "idle", status |-> 0, order |-> JsUndef, files |-> 0,
     images |-> <<>>, version |-> 0, pushed |-> <<>>, modified |-> FALSE, saved |-> 0]
NoRacers == [r \in 1..2 |-> IdleRacer]

\* one of two overlapping init-admin requests before it arrives
IdleInit == [pc |-> "idle", status |-> 0, email |-> <<>>, password |-> ""]
NoInits == [r \in 1..2 |-> IdleInit]

\* Folder.findById(folderId): only "f1" is stored
FolderFound(folderId) == folderId = "f1"

\* a request may begin when none is being handled
CanStart == req.pc = "idle"

\* res.status(code).json(...): the response is sent, the handler returns
Respond(r, code) == [r EXCEPT !.pc = "done", !.status = code]

\* an awaited call rejects: the catch block answers 500 with err.message
Catch(r, cause) == [r EXCEPT !.pc = "done", !.status = 500, !.error = cause]

\* the handler has returned and the request object is dropped; what it left
\* in uploads/ stays there, out of every later request's sight
Finish ==
    /\ req.pc = "done"
    /\ req' = IdleReq
    /\ temp' = {}
    /\ UNCHANGED <<dbImages, dbVideos, cdnImages, cdnVideos, nextId, admins, areq, folderVars, raceVars>>

----------------------------------------------------------------------------
(* PATCH /:folderId/reorder *)

\* new Map(coll.map(e => [e.public_id, e])).get(pid): the last entry with
\* that key wins
MapGet(coll, pid) ==
    coll[CHOOSE k \in DOMAIN coll :
            /\ coll[k].public_id = pid
            /\ \A j \in (k + 1)..Len(coll) : coll[j].public_id # pid]

\* map.has(pid)
MapHas(coll, pid) == \E k \in DOMAIN coll : coll[k].public_id = pid

\* variant: the matched entry is put in front of the result (unshift for push)
RECURSIVE WalkOrderUnshift(_, _, _, _)
WalkOrderUnshift(coll, order, k, out) ==
    IF k > Len(order) THEN out
    ELSE WalkOrderUnshift(coll, order, k + 1,
                          IF MapHas(coll, order[k]) THEN <<MapGet(coll, order[k])>> \o out ELSE out)

\* variant: the walk ends at the first id that matches no entry (break for skip)
RECURSIVE WalkOrderBreak(_, _, _, _)
WalkOrderBreak(coll, order, k, out) ==
    IF k > Len(order) THEN out
    ELSE IF MapHas(coll, order[k])
         THEN WalkOrderBreak(coll, order, k + 1, Append(out, MapGet(coll, order[k])))
         ELSE out

\* for (const pid of order) if (map.has(pid)) out.push(map.get(pid))
RECURSIVE WalkOrder(_, _, _, _)
WalkOrder(coll, order, k, out) ==
    IF k > Len(order) THEN out
    ELSE WalkOrder(coll, order, k + 1,
                   IF MapHas(coll, order[k]) THEN Append(out, MapGet(coll, order[k])) ELSE out)

\* variant: every entry is appended, listed or not (the includes test lost)
RECURSIVE AppendOmittedAll(_, _, _, _)
AppendOmittedAll(coll, order, k, out) ==
    IF k > Len(coll) THEN out
    ELSE AppendOmittedAll(coll, order, k + 1, Append(out, coll[k]))

\* variant: an omitted entry is put in front of the result (unshift for push)
RECURSIVE AppendOmittedFront(_, _, _, _)
AppendOmittedFront(coll, order, k, out) ==
    IF k > Len(coll) THEN out
    ELSE AppendOmittedFront(coll, order, k + 1,
                            IF ~Includes(order, coll[k].public_id) THEN <<coll[k]>> \o out ELSE out)

\* for (const e of coll) if (!order.includes(e.public_id)) out.push(e)
RECURSIVE AppendOmitted(_, _, _, _)
AppendOmitted(coll, order, k, out) ==
    IF k > Len(coll) THEN out
    ELSE AppendOmitted(coll, order, k + 1,
                       IF ~Includes(order, coll[k].public_id) THEN Append(out, coll[k]) ELSE out)

\* the body of `if (Array.isArray(order)) { ... }`
Reconcile(coll, order) == AppendOmitted(coll, order, 1, WalkOrder(coll, order, 1, <<>>))

\* one collection of the reorder handler
ReorderOne(coll, order) == IF IsArray(order) THEN Reconcile(coll, order.a) ELSE coll

\* the order lists and stored collections explored
OrderInputs == {JsUndef} \cup {JsArr(o) : o \in SeqsUpTo({"p1", "p2", "p3", "zz"}, MaxOrder)}
SmallOrderInputs == {JsUndef, JsArr(<<"zz", "p1">>)}

\* the ids of a collection, last to first
Reversed(xs) == [k \in DOMAIN xs |-> xs[Len(xs) + 1 - k]]

\* the arbitrary order lists and the complete list of the collection's ids, reversed
OrderInputsFor(coll) == OrderInputs \cup {JsArr(Reversed(IdsOf(coll)))}
StoredImages == SeqsUpTo({ImageObj("p1", Absent), ImageObj("p2", Absent), ImageObj("p3", "L1")}, MaxLen)
StoredVideos == SeqsUpTo({VideoObj("p1", Absent), VideoObj("p2", Absent), VideoObj("p3", "T1")}, MaxLen)

\* the request arrives
ReorderStart(folderId, imagesOrder, videosOrder) ==
    /\ CanStart
    /\ Len(ReorderOne(dbImages, imagesOrder)) <= MaxLen
    /\ Len(ReorderOne(dbVideos, videosOrder)) <= MaxLen
    /\ req' = [IdleReq EXCEPT !.op = "reorder", !.pc = "find", !.folderId = folderId,
                              !.imagesOrder = imagesOrder, !.videosOrder = videosOrder]
    /\ temp' = {}
    /\ UNCHANGED <<dbImages, dbVideos, cdnImages, cdnVideos, nextId, admins, areq, folderVars, raceVars>>

\* await Folder.findById(folderId) rejects
ReorderFindError ==
    /\ req.op = "reorder" /\ req.pc = "find"
    /\ req' = Catch(req, "db")
    /\ UNCHANGED <<dbImages, dbVideos, cdnImages, cdnVideos, nextId, temp, admins, areq, folderVars, raceVars>>

\* await Folder.findById(folderId) resolves, then both reconciliations
ReorderFind ==
    /\ req.op = "reorder" /\ req.pc = "find"
    /\ IF ~FolderFound(req.folderId)
       THEN req' = Respond(req, 404)
       ELSE req' = [req EXCEPT !.pc = "save",
                               !.images = ReorderOne(dbImages, req.imagesOrder),
                               !.videos = ReorderOne(dbVideos, req.videosOrder)]
    /\ UNCHANGED <<dbImages, dbVideos, cdnImages, cdnVideos, nextId, temp, admins, areq, folderVars, raceVars>>

\* await folder.save() rejects
ReorderSaveError ==
    /\ req.op = "reorder" /\ req.pc = "save"
    /\ req' = Catch(req, "db")
    /\ UNCHANGED <<dbImages, dbVideos, cdnImages, cdnVideos, nextId, temp, admins, areq, folderVars, raceVars>>

\* await folder.save() resolves, then the response
ReorderSave ==
    /\ req.op = "reorder" /\ req.pc = "save"
    /\ dbImages' = req.images
    /\ dbVideos' = req.videos
    /\ req' = Respond(req, 200)
    /\ UNCHANGED <<cdnImages, cdnVideos, nextId, temp, admins, areq, folderVars, raceVars>>

ReorderSteps == ReorderFindError \/ ReorderFind \/ ReorderSaveError \/ ReorderSave

----------------------------------------------------------------------------
(* POST /:folderId (upload) *)

\* declared MIME types, as character sequences
MimePng == <<"i", "m", "a", "g", "e", "/", "p", "n", "g">>
MimeMp4 == <<"v", "i", "d", "e", "o", "/", "m", "p", "4">>
MimeText == <<"t", "e", "x", "t", "/", "p", "l", "a", "i", "n">>
ImagePrefix == <<"i", "m", "a", "g", "e", "/">>
VideoPrefix == <<"v", "i", "d", "e", "o", "/">>

\* s.startsWith(prefix)
StartsWith(str, prefix) == Len(str) >= Len(prefix) /\ SubSeq(str, 1, Len(prefix)) = prefix

\* f.mimetype && f.mimetype.startsWith(prefix)
MimeIs(f, prefix) == Len(f.mimetype) > 0 /\ StartsWith(f.mimetype, prefix)

\* req.files[name] || []: the files received in one form field, in arrival order
FilesOfField(files, name) == SelectSeq(files, LAMBDA f : f.field = name)

\* variant: the generic field's files are taken whatever their MIME type
ImageFilesUnfiltered(files) == FilesOfField(files, "images") \o FilesOfField(files, "file")

\* imageFiles: the `images` field, then the generic field's image files
ImageFilesOf(files) ==
    FilesOfField(files, "images")
        \o SelectSeq(FilesOfField(files, "file"), LAMBDA f : MimeIs(f, ImagePrefix))

\* videoFiles: the `videos` field, then the generic field's video files
VideoFilesOf(files) ==
    FilesOfField(files, "videos")
        \o SelectSeq(FilesOfField(files, "file"), LAMBDA f : MimeIs(f, VideoPrefix))

\* variant: a single string is left as it is
WrapStringKept(v) == v

\* if (v !== undefined && typeof v === "string") v = [v]
WrapString(v) == IF v.t = "string" THEN JsArr(<<v.s>>) ELSE v

\* imageLabels after normalisation
ImageLabelsOf(body) ==
    WrapString(Coalesce(body.imageLabels,
               Coalesce(body.labels, Coalesce(body.labelsArr, body.imageLabelsArr))))

\* videoTitles after normalisation
VideoTitlesOf(body) == WrapString(Coalesce(body.videoTitles, body.videoTitlesArr))

\* variant: the metadata of a file is looked up one position too far
MetaForNext(meta, i) ==
    IF IsArray(meta) THEN At(meta.a, i + 1)
    ELSE IF meta.t = "string" THEN meta.s ELSE Absent

\* Array.isArray(meta) ? meta[i] : meta
MetaFor(meta, i) ==
    IF IsArray(meta) THEN At(meta.a, i)
    ELSE IF meta.t = "string" THEN meta.s ELSE Absent

\* variant: the video loop stops after its first file
AfterVideosOnce(r, i) == [r EXCEPT !.pc = "save", !.i = 0]

\* where the handler awaits next once video i-1 is done
AfterVideos(r, i) ==
    IF i < Len(r.videoFiles) THEN [r EXCEPT !.pc = "videos", !.i = i]
    ELSE [r EXCEPT !.pc = "save", !.i = 0]

\* variant: a request without any image or video file is answered 400
AfterImagesNeedsFile(r, i) ==
    IF i < Len(r.imageFiles) THEN [r EXCEPT !.pc = "images", !.i = i]
    ELSE IF Len(VideoFilesOf(r.files)) > 0 \/ Len(r.imageFiles) > 0
         THEN AfterVideos([r EXCEPT !.videoFiles = VideoFilesOf(r.files)], 0)
         ELSE Respond(r, 400)

\* where the handler awaits next once image i-1 is done (0-based count i);
\* the video files are picked out of the request when the image loop is left
AfterImages(r, i) ==
    IF i < Len(r.imageFiles) THEN [r EXCEPT !.pc = "images", !.i = i]
    ELSE AfterVideos([r EXCEPT !.videoFiles = VideoFilesOf(r.files)], 0)

\* the kinds of file a client sends: form field and declared MIME type
FileKinds ==
    {[field |-> "images", mimetype |-> MimePng], [field |-> "images", mimetype |-> MimeText],
     [field |-> "videos", mimetype |-> MimeMp4],
     [field |-> "file", mimetype |-> MimePng], [field |-> "file", mimetype |-> MimeMp4],
     [field |-> "file", mimetype |-> MimeText]}

\* multer stores file k of the request under a path of its own
Stored(kinds) == [k \in DOMAIN kinds |->
                    [field |-> kinds[k].field, mimetype |-> kinds[k].mimetype, path |-> k]]

\* the metadata values a client sends for one kind: nothing, one string, or
\* the first k of a list of pairwise different values
\* (shape -2: nothing, -1: one string, k >= 0: a list of k values)
MetaShapes == (-2)..MaxMeta
MetaInput(shape, names) ==
    IF shape = -2 THEN JsUndef
    ELSE IF shape = -1 THEN JsStr("s")
    ELSE JsArr(SubSeq(names, 1, shape))
LabelNames == <<"L1", "L2", "L3", "L4">>
TitleNames == <<"T1", "T2", "T3", "T4">>

\* the request bodies explored: every shape of labels and titles under the
\* current field names, and the legacy field names with their precedence
BodyInputs ==
    {[NoBody EXCEPT !.imageLabels = MetaInput(sh, LabelNames),
                    !.videoTitles = MetaInput(sh, TitleNames)] : sh \in MetaShapes}
    \cup {[NoBody EXCEPT !.labels = JsArr(<<"L1", "L2">>)],
          [NoBody EXCEPT !.labelsArr = JsArr(<<"L2">>), !.imageLabelsArr = JsStr("s")],
          [NoBody EXCEPT !.imageLabelsArr = JsArr(<<"L1">>), !.videoTitlesArr = JsArr(<<"T1">>)],
          [NoBody EXCEPT !.imageLabels = JsStr("s"), !.labels = JsArr(<<"L1">>),
                         !.videoTitles = JsArr(<<"T1", "T2">>)]}

\* multer has stored the files in uploads/ and the handler starts
UploadStart(folderId, kinds, body) ==
    /\ CanStart
    /\ nextId + Len(kinds) <= MaxUploads
    /\ req' = [IdleReq EXCEPT !.op = "upload", !.pc = "find", !.folderId = folderId,
                              !.files = Stored(kinds), !.body = body]
    /\ temp' = DOMAIN kinds
    /\ UNCHANGED <<dbImages, dbVideos, cdnImages, cdnVideos, nextId, admins, areq, folderVars, raceVars>>

\* await Folder.findById(folderId) rejects
UploadFindError ==
    /\ req.op = "upload" /\ req.pc = "find"
    /\ req' = Catch(req, "db")
    /\ UNCHANGED <<dbImages, dbVideos, cdnImages, cdnVideos, nextId, temp, admins, areq, folderVars, raceVars>>

\* await Folder.findById(folderId) resolves; labels, titles and the image
\* files are worked out before the first upload call
UploadFind ==
    /\ req.op = "upload" /\ req.pc = "find"
    /\ IF ~FolderFound(req.folderId)
       THEN req' = Respond(req, 404)
       ELSE req' = AfterImages([req EXCEPT !.images = dbImages, !.videos = dbVideos,
                                           !.imageLabels = ImageLabelsOf(req.body),
                                           !.videoTitles = VideoTitlesOf(req.body),
                                           !.imageFiles = ImageFilesOf(req.files)], 0)
    /\ UNCHANGED <<dbImages, dbVideos, cdnImages, cdnVideos, nextId, temp, admins, areq, folderVars, raceVars>>

\* variant: the folder is saved with the records built so far before the
\* catch block answers
UploadCdnErrorSavesPart ==
    /\ req.op = "upload" /\ req.pc \in {"images", "videos"}
    /\ req' = Catch(req, "cdn")
    /\ dbImages' = req.images
    /\ dbVideos' = req.videos
    /\ UNCHANGED <<cdnImages, cdnVideos, nextId, temp, admins, areq, folderVars, raceVars>>

\* await cloudinary.uploader.upload(...) rejects in either loop
UploadCdnError ==
    /\ req.op = "upload" /\ req.pc \in {"images", "videos"}
    /\ req' = Catch(req, "cdn")
    /\ UNCHANGED <<dbImages, dbVideos, cdnImages, cdnVideos, nextId, temp, admins, areq, folderVars, raceVars>>

\* one iteration of the image loop: the upload resolves, the record is
\* pushed on folder.images and results.images, the temp file is removed
UploadImage ==
    /\ req.op = "upload" /\ req.pc = "images"
    /\ LET id == UploadIds[nextId + 1]
           file == req.imageFiles[req.i + 1]
           imageObj == ImageObj(id, MetaFor(req.imageLabels, req.i))
       IN /\ nextId' = nextId + 1
          /\ cdnImages' = cdnImages \cup {id}
          /\ temp' = temp \ {file.path}
          /\ req' = AfterImages([req EXCEPT !.images = Append(@, imageObj),
                                            !.results.images = Append(@, imageObj)], req.i + 1)
    /\ UNCHANGED <<dbImages, dbVideos, cdnVideos, admins, areq, folderVars, raceVars>>

\* one iteration of the video loop
UploadVideo ==
    /\ req.op = "upload" /\ req.pc = "videos"
    /\ LET id == UploadIds[nextId + 1]
           file == req.videoFiles[req.i + 1]
           videoObj == VideoObj(id, MetaFor(req.videoTitles, req.i))
       IN /\ nextId' = nextId + 1
          /\ cdnVideos' = cdnVideos \cup {id}
          /\ temp' = temp \ {file.path}
          /\ req' = AfterVideos([req EXCEPT !.videos = Append(@, videoObj),
                                            !.results.videos = Append(@, videoObj)], req.i + 1)
    /\ UNCHANGED <<dbImages, dbVideos, cdnImages, admins, areq, folderVars, raceVars>>

\* await folder.save() rejects
UploadSaveError ==
    /\ req.op = "upload" /\ req.pc = "save"
    /\ req' = Catch(req, "db")
    /\ UNCHANGED <<dbImages, dbVideos, cdnImages, cdnVideos, nextId, temp, admins, areq, folderVars, raceVars>>

\* await folder.save() resolves, then res.json({ uploaded: results })
UploadSave ==
    /\ req.op = "upload" /\ req.pc = "save"
    /\ dbImages' = req.images
    /\ dbVideos' = req.videos
    /\ req' = Respond(req, 200)
    /\ UNCHANGED <<cdnImages, cdnVideos, nextId, temp, admins, areq, folderVars, raceVars>>

\* the body of the 200 response
UploadResponse(r) == [uploaded |-> r.results]

UploadSteps ==
    \/ UploadFindError \/ UploadFind \/ UploadCdnError \/ UploadImage \/ UploadVideo
    \/ UploadSaveError \/ UploadSave

----------------------------------------------------------------------------
(* DELETE /:folderId/:publicId *)

\* the request arrives (publicId is the decoded path parameter)
DeleteStart(folderId, publicId) ==
    /\ CanStart
    /\ req' = [IdleReq EXCEPT !.op = "delete", !.pc = "find", !.folderId = folderId,
                              !.publicId = publicId]
    /\ temp' = {}
    /\ UNCHANGED <<dbImages, dbVideos, cdnImages, cdnVideos, nextId, admins, areq, folderVars, raceVars>>

\* await Folder.findById(folderId) rejects
DeleteFindError ==
    /\ req.op = "delete" /\ req.pc = "find"
    /\ req' = Catch(req, "db")
    /\ UNCHANGED <<dbImages, dbVideos, cdnImages, cdnVideos, nextId, temp, admins, areq, folderVars, raceVars>>

\* await Folder.findById(folderId) resolves; the id is looked up in images,
\* then in videos
DeleteFind ==
    /\ req.op = "delete" /\ req.pc = "find"
    /\ IF ~FolderFound(req.folderId) THEN req' = Respond(req, 404)
       ELSE IF FindIndex(dbImages, req.publicId) # 0
       THEN req' = [req EXCEPT !.pc = "destroy", !.kind = "image",
                               !.index = FindIndex(dbImages, req.publicId),
                               !.images = dbImages, !.videos = dbVideos]
       ELSE IF FindIndex(dbVideos, req.publicId) # 0
       THEN req' = [req EXCEPT !.pc = "destroy", !.kind = "video",
                               !.index = FindIndex(dbVideos, req.publicId),
                               !.images = dbImages, !.videos = dbVideos]
       ELSE req' = Respond([req EXCEPT !.images = dbImages, !.videos = dbVideos], 404)
    /\ UNCHANGED <<dbImages, dbVideos, cdnImages, cdnVideos, nextId, temp, admins, areq, folderVars, raceVars>>

\* variant: the entry is taken out of the stored folder although the destroy
\* call rejected
DeleteDestroyErrorRemoves ==
    /\ req.op = "delete" /\ req.pc = "destroy"
    /\ req' = Catch(req, "cdn")
    /\ IF req.kind = "image"
       THEN dbImages' = Splice(dbImages, req.index) /\ UNCHANGED dbVideos
       ELSE dbVideos' = Splice(dbVideos, req.index) /\ UNCHANGED dbImages
    /\ UNCHANGED <<cdnImages, cdnVideos, nextId, temp, admins, areq, folderVars, raceVars>>

\* await cloudinary.uploader.destroy(...) rejects
DeleteDestroyError ==
    /\ req.op = "delete" /\ req.pc = "destroy"
    /\ req' = Catch(req, "cdn")
    /\ UNCHANGED <<dbImages, dbVideos, cdnImages, cdnVideos, nextId, temp, admins, areq, folderVars, raceVars>>

\* await cloudinary.uploader.destroy(...) resolves, then the splice
DeleteDestroy ==
    /\ req.op = "delete" /\ req.pc = "destroy"
    /\ IF req.kind = "image"
       THEN /\ cdnImages' = cdnImages \ {req.publicId}
            /\ req' = [req EXCEPT !.pc = "save", !.images = Splice(@, req.index)]
            /\ UNCHANGED cdnVideos
       ELSE /\ cdnVideos' = cdnVideos \ {req.publicId}
            /\ req' = [req EXCEPT !.pc = "save", !.videos = Splice(@, req.index)]
            /\ UNCHANGED cdnImages
    /\ UNCHANGED <<dbImages, dbVideos, nextId, temp, admins, areq, folderVars, raceVars>>

\* await folder.save() rejects
DeleteSaveError ==
    /\ req.op = "delete" /\ req.pc = "save"
    /\ req' = Catch(req, "db")
    /\ UNCHANGED <<dbImages, dbVideos, cdnImages, cdnVideos, nextId, temp, admins, areq, folderVars, raceVars>>

\* await folder.save() resolves, then the response
DeleteSave ==
    /\ req.op = "delete" /\ req.pc = "save"
    /\ dbImages' = req.images
    /\ dbVideos' = req.videos
    /\ req' = Respond(req, 200)
    /\ UNCHANGED <<cdnImages, cdnVideos, nextId, temp, admins, areq, folderVars, raceVars>>

DeleteSteps ==
    \/ DeleteFindError \/ DeleteFind \/ DeleteDestroyError \/ DeleteDestroy
    \/ DeleteSaveError \/ DeleteSave

----------------------------------------------------------------------------
(* PUT /:folderId/:publicId (update metadata, rename) *)

\* if (newName): a non-empty string
Truthy(v) == v # Absent /\ v # ""

\* if (newLabel !== undefined) entry.label = newLabel
SetLabel(coll, k, newLabel) ==
    IF newLabel # Absent THEN [coll EXCEPT ![k].label = newLabel] ELSE coll

\* if (newTitle !== undefined) entry.title = newTitle
SetTitle(coll, k, newTitle) ==
    IF newTitle # Absent THEN [coll EXCEPT ![k].title = newTitle] ELSE coll

\* entry.public_id = renamed.public_id; entry.url = renamed.secure_url
SetRenamed(coll, k, id) == [coll EXCEPT ![k].public_id = id, ![k].url = SecureUrl(id)]

\* the request arrives
UpdateStart(folderId, publicId, newName, newLabel, newTitle) ==
    /\ CanStart
    /\ req' = [IdleReq EXCEPT !.op = "update", !.pc = "find", !.folderId = folderId,
                              !.publicId = publicId, !.newName = newName,
                              !.newLabel = newLabel, !.newTitle = newTitle]
    /\ temp' = {}
    /\ UNCHANGED <<dbImages, dbVideos, cdnImages, cdnVideos, nextId, admins, areq, folderVars, raceVars>>

\* await Folder.findById(folderId) rejects
UpdateFindError ==
    /\ req.op = "update" /\ req.pc = "find"
    /\ req' = Catch(req, "db")
    /\ UNCHANGED <<dbImages, dbVideos, cdnImages, cdnVideos, nextId, temp, admins, areq, folderVars, raceVars>>

\* await Folder.findById(folderId) resolves; without a newName the label or
\* title is set at once, with one the handler awaits the rename
UpdateFind ==
    /\ req.op = "update" /\ req.pc = "find"
    /\ LET loaded == [req EXCEPT !.images = dbImages, !.videos = dbVideos]
           imageIndex == FindIndex(dbImages, req.publicId)
           videoIndex == FindIndex(dbVideos, req.publicId)
       IN IF ~FolderFound(req.folderId) THEN req' = Respond(req, 404)
          ELSE IF imageIndex # 0
          THEN IF Truthy(req.newName)
               THEN req' = [loaded EXCEPT !.pc = "rename", !.kind = "image", !.index = imageIndex]
               ELSE req' = [loaded EXCEPT !.pc = "save", !.kind = "image", !.index = imageIndex,
                                          !.images = SetLabel(@, imageIndex, req.newLabel)]
          ELSE IF videoIndex # 0
          THEN IF Truthy(req.newName)
               THEN req' = [loaded EXCEPT !.pc = "rename", !.kind = "video", !.index = videoIndex]
               ELSE req' = [loaded EXCEPT !.pc = "save", !.kind = "video", !.index = videoIndex,
                                          !.videos = SetTitle(@, videoIndex, req.newTitle)]
          ELSE req' = Respond(loaded, 404)
    /\ UNCHANGED <<dbImages, dbVideos, cdnImages, cdnVideos, nextId, temp, admins, areq, folderVars, raceVars>>

\* await cloudinary.uploader.rename(...) rejects: Cloudinary refuses to rename
\* a resource it does not hold or onto a public_id in use, or the call fails
UpdateRenameError ==
    /\ req.op = "update" /\ req.pc = "rename"
    /\ req' = Catch(req, "cdn")
    /\ UNCHANGED <<dbImages, dbVideos, cdnImages, cdnVideos, nextId, temp, admins, areq, folderVars, raceVars>>

\* Cloudinary accepts rename(from, to) for the resources of one type
CanRename(held, from, to) == from \in held /\ to \notin held

\* await cloudinary.uploader.rename(...) resolves; public_id and url are
\* replaced, then the label or title is set
UpdateRename ==
    /\ req.op = "update" /\ req.pc = "rename"
    /\ IF req.kind = "image"
       THEN /\ CanRename(cdnImages, req.publicId, req.newName)
            /\ cdnImages' = (cdnImages \ {req.publicId}) \cup {req.newName}
            /\ req' = [req EXCEPT !.pc = "save",
                                  !.images = SetLabel(SetRenamed(@, req.index, req.newName),
                                                      req.index, req.newLabel)]
            /\ UNCHANGED cdnVideos
       ELSE /\ CanRename(cdnVideos, req.publicId, req.newName)
            /\ cdnVideos' = (cdnVideos \ {req.publicId}) \cup {req.newName}
            /\ req' = [req EXCEPT !.pc = "save",
                                  !.videos = SetTitle(SetRenamed(@, req.index, req.newName),
                                                      req.index, req.newTitle)]
            /\ UNCHANGED cdnImages
    /\ UNCHANGED <<dbImages, dbVideos, nextId, temp, admins, areq, folderVars, raceVars>>

\* await folder.save() rejects
UpdateSaveError ==
    /\ req.op = "update" /\ req.pc = "save"
    /\ req' = Catch(req, "db")
    /\ UNCHANGED <<dbImages, dbVideos, cdnImages, cdnVideos, nextId, temp, admins, areq, folderVars, raceVars>>

\* await folder.save() resolves, then the response
UpdateSave ==
    /\ req.op = "update" /\ req.pc = "save"
    /\ dbImages' = req.images
    /\ dbVideos' = req.videos
    /\ req' = Respond(req, 200)
    /\ UNCHANGED <<cdnImages, cdnVideos, nextId, temp, admins, areq, folderVars, raceVars>>

UpdateSteps ==
    \/ UpdateFindError \/ UpdateFind \/ UpdateRenameError \/ UpdateRename
    \/ UpdateSaveError \/ UpdateSave

----------------------------------------------------------------------------
(* Authentication gate and admin routes (routes/auth.js) *)

\* e-mail addresses, as character sequences
EnvEmail == <<"R", "@", "x">>
RootEmail == <<"r", "@", "x">>
PaddedEmail == <<" ", "r", "@", "x">>
OtherEmail == <<"b", "@", "x">>
NoEmail == <<>>

\* process.env.ADMIN_EMAIL / ADMIN_PASSWORD
EnvAdminEmail == EnvEmail
EnvAdminPassword == "env-pw"

\* c.toLowerCase() for one character
LowerChar(c) == IF c = "R" THEN "r" ELSE IF c = "B" THEN "b" ELSE c

\* s.trim()
RECURSIVE Trim(_)
Trim(str) ==
    IF Len(str) = 0 THEN str
    ELSE IF Head(str) = " " THEN Trim(Tail(str))
    ELSE IF str[Len(str)] = " " THEN Trim(SubSeq(str, 1, Len(str) - 1))
    ELSE str

\* email.toLowerCase().trim()
NormalizeEmail(email) == Trim([k \in DOMAIN email |-> LowerChar(email[k])])

\* the _id values MongoDB gives to Admin documents, in order of creation
AdminIds == <<"a1", "a2", "a3", "a4">>

\* what req.currentAdmin can hold; NoAdmin stands for an unset property
NoAdmin == [id |-> Absent, email |-> NoEmail, role |-> Absent, isEnvAdmin |-> FALSE, set |-> FALSE]
\* the role a new Admin document gets from its schema
DefaultAdminRole == "admin"

StoredAdmin(id, email) ==
    [id |-> id, email |-> email, role |-> DefaultAdminRole, isEnvAdmin |-> FALSE, set |-> TRUE]

\* the minimal admin-like object of the bootstrap flow
EnvIdentity(decoded) ==
    [id |-> Absent, email |-> decoded.email,
     role |-> IF decoded.role # Absent THEN decoded.role ELSE "admin",
     isEnvAdmin |-> TRUE, set |-> TRUE]

\* Admin.findById(id): the stored admin or NoAdmin for null
FindAdminById(id) ==
    IF \E a \in admins : a.id = id THEN CHOOSE a \in admins : a.id = id ELSE NoAdmin

\* Admin.findOne({ email }): the stored admin or NoAdmin for null
FindAdminByEmail(email) ==
    IF \E a \in admins : a.email = email THEN CHOOSE a \in admins : a.email = email ELSE NoAdmin

\* Authorization headers: none, another scheme, or "Bearer " and a token
NoToken == [kind |-> "empty", id |-> Absent, email |-> NoEmail, role |-> Absent, isEnvAdmin |-> FALSE]
Token(kind, id, email, role, env) ==
    [kind |-> kind, id |-> id, email |-> email, role |-> role, isEnvAdmin |-> env]
Header(scheme, token) == [scheme |-> scheme, token |-> token]

\* the payloads a token signed with JWT_SECRET may carry
SignedTokens ==
    {Token("signed", id, email, role, env) :
        id \in {Absent, "a1", "a9"}, email \in {NoEmail, EnvEmail, OtherEmail},
        role \in {Absent, "editor"}, env \in BOOLEAN}

Headers ==
    {Header("none", NoToken), Header("Basic", Token("signed", "a1", RootEmail, Absent, FALSE)),
     Header("Bearer", NoToken),
     Header("Bearer", Token("forged", "a1", RootEmail, Absent, TRUE)),
     Header("Bearer", Token("expired", "a1", RootEmail, Absent, TRUE))}
        \cup {Header("Bearer", t) : t \in SignedTokens}

\* authHeader.startsWith('Bearer ') ? authHeader.slice(7) : null; an empty
\* token is as good as none
BearerToken(header) ==
    IF header.scheme = "Bearer" /\ header.token.kind # "empty" THEN header.token ELSE NoToken
HasToken(header) == BearerToken(header).kind # "empty"

\* variant: the token is decoded without its expiry being checked
JwtDecodes(token) == token.kind \in {"signed", "expired"}

\* jwt.verify(token, JWT_SECRET) returns the payload (does not throw)
JwtVerifies(token) == token.kind = "signed"

\* variant: the bootstrap identity is granted without the isEnvAdmin mark
EmailFallbackUnmarked(adminByEmail, decoded) ==
    IF adminByEmail.set THEN adminByEmail ELSE EnvIdentity(decoded)

\* the identity the email fallback resolves, NoAdmin when it resolves none
EmailFallback(adminByEmail, decoded) ==
    IF adminByEmail.set THEN adminByEmail
    ELSE IF decoded.isEnvAdmin THEN EnvIdentity(decoded)
    ELSE NoAdmin

IdleAreq ==
    [route |-> "none", pc |-> "idle", status |-> 0, message |-> "",
     header |-> Header("none", NoToken), email |-> NoEmail, password |-> "",
     gate |-> "Unauthenticated", currentAdmin |-> NoAdmin, handlerRan |-> FALSE]

\* res.status(code).json({ message })
AuthRespond(r, code, message) == [r EXCEPT !.pc = "done", !.status = code, !.message = message]

\* the gate answers itself: the handler is never called
Reject(r, code, message) == [AuthRespond(r, code, message) EXCEPT !.gate = "Rejected"]

\* req.currentAdmin = identity; return next(): the route handler starts
Admit(r, identity, handlerPc) ==
    [r EXCEPT !.gate = "Verified", !.currentAdmin = identity, !.pc = handlerPc,
              !.handlerRan = TRUE]

\* a request for the protected route POST /create-admin arrives
CreateAdminStart(header, email, password) ==
    /\ areq.pc = "idle"
    /\ areq' = [IdleAreq EXCEPT !.route = "create-admin", !.pc = "gate", !.header = header,
                                !.email = email, !.password = password]
    /\ UNCHANGED <<mediaVars, admins, folderVars, raceVars>>

\* authenticate, up to its first await
Gate ==
    /\ areq.pc = "gate"
    /\ LET token == BearerToken(areq.header)
       IN IF ~HasToken(areq.header)
          THEN areq' = Reject(areq, 401, "Authorization token required")
          ELSE IF ~JwtVerifies(token)
          THEN areq' = Reject([areq EXCEPT !.gate = "TokenPresented"], 401, "Invalid or expired token")
          ELSE IF token.id # Absent
          THEN areq' = [areq EXCEPT !.pc = "lookupId", !.gate = "TokenPresented"]
          ELSE IF token.email # NoEmail
          THEN areq' = [areq EXCEPT !.pc = "lookupEmail", !.gate = "TokenPresented"]
          ELSE areq' = Reject([areq EXCEPT !.gate = "TokenPresented"], 401,
                              "Invalid token: admin not found")
    /\ UNCHANGED <<mediaVars, admins, folderVars, raceVars>>

\* an Admin lookup of the gate rejects
GateLookupError ==
    /\ areq.pc \in {"lookupId", "lookupEmail"}
    /\ areq' = Reject(areq, 500, "Server error during authentication")
    /\ UNCHANGED <<mediaVars, admins, folderVars, raceVars>>

\* await Admin.findById(decoded.id) resolves
GateLookupId ==
    /\ areq.pc = "lookupId"
    /\ LET admin == FindAdminById(BearerToken(areq.header).id)
       IN IF ~admin.set
          THEN areq' = Reject(areq, 401, "Invalid token: admin not found")
          ELSE areq' = Admit(areq, admin, "handler")
    /\ UNCHANGED <<mediaVars, admins, folderVars, raceVars>>

\* await Admin.findOne({ email: decoded.email.toLowerCase().trim() }) resolves
GateLookupEmail ==
    /\ areq.pc = "lookupEmail"
    /\ LET decoded == BearerToken(areq.header)
           identity == EmailFallback(FindAdminByEmail(NormalizeEmail(decoded.email)), decoded)
       IN IF identity.set
          THEN areq' = Admit(areq, identity, "handler")
          ELSE areq' = Reject(areq, 401, "Invalid token: admin not found")
    /\ UNCHANGED <<mediaVars, admins, folderVars, raceVars>>

\* variant: every identity the gate attached may create administrators
MayCreateAdminAny(identity) == identity.set

\* the role test of the create-admin handler
MayCreateAdmin(identity) == identity.set /\ identity.role \in {"admin", "superadmin"}

\* the create-admin handler, up to its first await
CreateAdminHandler ==
    /\ areq.route = "create-admin" /\ areq.pc = "handler"
    /\ IF areq.email = NoEmail \/ areq.password = ""
       THEN areq' = AuthRespond(areq, 400, "Email and password required")
       ELSE IF ~MayCreateAdmin(areq.currentAdmin)
       THEN areq' = AuthRespond(areq, 403, "Forbidden: admin only")
       ELSE areq' = [areq EXCEPT !.pc = "findExisting"]
    /\ UNCHANGED <<mediaVars, admins, folderVars, raceVars>>

\* an awaited call of a handler of the auth router rejects
AuthHandlerError ==
    /\ areq.pc \in {"findExisting", "save", "count"}
    /\ areq' = AuthRespond(areq, 500, "Server error")
    /\ UNCHANGED <<mediaVars, admins, folderVars, raceVars>>

\* await Admin.findOne({ email: normalized }) resolves
CreateAdminFindExisting ==
    /\ areq.route = "create-admin" /\ areq.pc = "findExisting"
    /\ IF FindAdminByEmail(NormalizeEmail(areq.email)).set
       THEN areq' = AuthRespond(areq, 409, "Admin with this email already exists")
       ELSE areq' = [areq EXCEPT !.pc = "save"]
    /\ UNCHANGED <<mediaVars, admins, folderVars, raceVars>>

\* await newAdmin.save() resolves (create-admin: 201, init-admin: 200)
AdminSave ==
    /\ areq.pc = "save"
    /\ Cardinality(admins) < MaxAdmins
    /\ admins' = admins \cup {StoredAdmin(AdminIds[Cardinality(admins) + 1], NormalizeEmail(areq.email))}
    /\ areq' = IF areq.route = "create-admin"
               THEN AuthRespond(areq, 201, "New admin created")
               ELSE AuthRespond(areq, 200, "Initial admin created")
    /\ UNCHANGED <<mediaVars, folderVars, raceVars>>

\* a request for POST /init-admin arrives
InitAdminStart(email, password) ==
    /\ areq.pc = "idle"
    /\ areq' = [IdleAreq EXCEPT !.route = "init-admin", !.pc = "count",
                                !.email = email, !.password = password]
    /\ UNCHANGED <<mediaVars, admins, folderVars, raceVars>>

\* await Admin.countDocuments() resolves, then the credential comparison
InitAdminCount ==
    /\ areq.route = "init-admin" /\ areq.pc = "count"
    /\ IF Cardinality(admins) > 0
       THEN areq' = AuthRespond(areq, 400, "Admins already exist. Use protected create route.")
       ELSE IF areq.email # EnvAdminEmail \/ areq.password # EnvAdminPassword
       THEN areq' = AuthRespond(areq, 401, "Provided credentials do not match server configured admin.")
       ELSE areq' = [areq EXCEPT !.pc = "save"]
    /\ UNCHANGED <<mediaVars, admins, folderVars, raceVars>>

\* the response is out and the request object dropped
AuthFinish ==
    /\ areq.pc = "done"
    /\ areq' = IdleAreq
    /\ UNCHANGED <<mediaVars, admins, folderVars, raceVars>>

InitAuth ==
    /\ dbImages = <<>> /\ dbVideos = <<>>
    /\ cdnImages = {} /\ cdnVideos = {}
    /\ nextId = 0
    /\ temp = {}
    /\ req = IdleReq
    /\ admins = {}
    /\ areq = IdleAreq
    /\ folders = {} /\ freq = IdleFreq
    /\ dbVersion = 0 /\ racers = NoRacers /\ inits = NoInits

AuthRequest ==
    \/ \E header \in Headers, email \in {NoEmail, OtherEmail, PaddedEmail}, password \in {"", "pw"} :
          CreateAdminStart(header, email, password)
    \/ \E email \in {EnvEmail, OtherEmail}, password \in {EnvAdminPassword, "pw"} :
          InitAdminStart(email, password)

NextAuth ==
    \/ AuthRequest
    \/ Gate \/ GateLookupError \/ GateLookupId \/ GateLookupEmail
    \/ CreateAdminHandler \/ CreateAdminFindExisting \/ AuthHandlerError \/ AdminSave
    \/ InitAdminCount \/ AuthFinish

SpecAuth == InitAuth /\ [][NextAuth]_vars

----------------------------------------------------------------------------
(* The folder routes: GET /, POST /, PUT /:id and PATCH /reorder-folders *)

\* the paths FolderSchema declares
FolderSchemaPaths == {"name", "images", "videos", "createdAt"}

\* the sort value of `order` in a document without that key (null sorts first)
NoOrder == -1

\* the _ids MongoDB gives to new folders, and the names clients choose
FolderIds == <<"f1", "f2", "f3", "f4">>
FolderNames == {"A", "B"}

\* new Folder({ name }), the n-th document created: createdAt is Date.now()
NewFolder(n, name) == [id |-> FolderIds[n], name |-> name, createdAt |-> n, order |-> NoOrder]

\* setting one path of a Folder through the model: the schema is strict, a
\* path it does not declare is dropped from the write
StrictSet(doc, path, value) ==
    IF path \in FolderSchemaPaths THEN [doc EXCEPT ![path] = value] ELSE doc

\* Folder.findOne({ name }) finds a document
NameTaken(name) == \E d \in folders : d.name = name

\* Folder.findById(id) finds a document
FolderStored(id) == \E d \in folders : d.id = id

\* the sort keys of the two listings, first key first
ByCreated == <<"createdAt">>
ByOrderThenCreated == <<"order", "createdAt">>

\* document a sorts before document b under ascending keys
RECURSIVE Before(_, _, _)
Before(a, b, keys) ==
    /\ keys # <<>>
    /\ \/ a[Head(keys)] < b[Head(keys)]
       \/ a[Head(keys)] = b[Head(keys)] /\ Before(a, b, Tail(keys))

\* Folder.find().sort(keys)
SortFolders(docs, keys) ==
    CHOOSE l \in [1..Cardinality(docs) -> docs] :
        \A j, k \in 1..Cardinality(docs) : j < k => Before(l[j], l[k], keys)

\* Folder.bulkWrite(ops) with ops[idx] = updateOne { _id: folderIds[idx] } $set { order: idx }
RECURSIVE BulkSetOrder(_, _, _)
BulkSetOrder(docs, folderIds, k) ==
    IF k > Len(folderIds) THEN docs
    ELSE BulkSetOrder({IF d.id = folderIds[k] THEN StrictSet(d, "order", k - 1) ELSE d : d \in docs},
                      folderIds, k + 1)

\* res.status(code).json(...)
FolderRespond(r, code) == [r EXCEPT !.pc = "done", !.status = code]

\* POST /: the name test, then the handler awaits Folder.findOne
FolderCreateStart(name) ==
    /\ freq.pc = "idle"
    /\ LET r == [IdleFreq EXCEPT !.route = "create", !.name = name]
       IN freq' = IF ~Truthy(name) THEN FolderRespond(r, 400) ELSE [r EXCEPT !.pc = "findOne"]
    /\ UNCHANGED <<mediaVars, authVars, folders, raceVars>>

\* await Folder.findOne({ name }) resolves
FolderCreateFindOne ==
    /\ freq.route = "create" /\ freq.pc = "findOne"
    /\ freq' = IF NameTaken(freq.name) THEN FolderRespond(freq, 400) ELSE [freq EXCEPT !.pc = "save"]
    /\ UNCHANGED <<mediaVars, authVars, folders, raceVars>>

\* await folder.save() resolves: the new document is stored
FolderCreateSave ==
    /\ freq.route = "create" /\ freq.pc = "save"
    /\ Cardinality(folders) < MaxFolders
    /\ folders' = folders \cup {NewFolder(Cardinality(folders) + 1, freq.name)}
    /\ freq' = FolderRespond(freq, 201)
    /\ UNCHANGED <<mediaVars, authVars, raceVars>>

\* PUT /:id: the name test, then the handler awaits Folder.findById
FolderRenameStart(id, name) ==
    /\ freq.pc = "idle"
    /\ LET r == [IdleFreq EXCEPT !.route = "rename", !.id = id, !.name = name]
       IN freq' = IF ~Truthy(name) THEN FolderRespond(r, 400) ELSE [r EXCEPT !.pc = "findById"]
    /\ UNCHANGED <<mediaVars, authVars, folders, raceVars>>

\* await Folder.findById(req.params.id) resolves
FolderRenameFindById ==
    /\ freq.route = "rename" /\ freq.pc = "findById"
    /\ freq' = IF ~FolderStored(freq.id) THEN FolderRespond(freq, 404) ELSE [freq EXCEPT !.pc = "save"]
    /\ UNCHANGED <<mediaVars, authVars, folders, raceVars>>

\* folder.name = name; await folder.save() resolves
FolderRenameSave ==
    /\ freq.route = "rename" /\ freq.pc = "save"
    /\ folders' = {IF d.id = freq.id THEN StrictSet(d, "name", freq.name) ELSE d : d \in folders}
    /\ freq' = FolderRespond(freq, 200)
    /\ UNCHANGED <<mediaVars, authVars, raceVars>>

\* GET /
FolderListStart ==
    /\ freq.pc = "idle"
    /\ freq' = [IdleFreq EXCEPT !.route = "list", !.pc = "find"]
    /\ UNCHANGED <<mediaVars, authVars, folders, raceVars>>

\* await Folder.find().sort({ createdAt: 1 }) resolves
FolderList ==
    /\ freq.route = "list" /\ freq.pc = "find"
    /\ freq' = FolderRespond([freq EXCEPT !.listing = SortFolders(folders, ByCreated)], 200)
    /\ UNCHANGED <<mediaVars, authVars, folders, raceVars>>

\* PATCH /reorder-folders: the array test; bulkWrite is skipped without ops
ReorderFoldersStart(folderIds) ==
    /\ freq.pc = "idle"
    /\ LET r == [IdleFreq EXCEPT !.route = "reorder-folders", !.folderIds = folderIds]
       IN freq' = IF ~IsArray(folderIds) THEN FolderRespond(r, 400)
                  ELSE IF Len(folderIds.a) > 0 THEN [r EXCEPT !.pc = "bulkWrite"]
                  ELSE [r EXCEPT !.pc = "find"]
    /\ UNCHANGED <<mediaVars, authVars, folders, raceVars>>

\* await Folder.bulkWrite(ops) resolves
ReorderFoldersBulkWrite ==
    /\ freq.route = "reorder-folders" /\ freq.pc = "bulkWrite"
    /\ folders' = BulkSetOrder(folders, freq.folderIds.a, 1)
    /\ freq' = [freq EXCEPT !.pc = "find"]
    /\ UNCHANGED <<mediaVars, authVars, raceVars>>

\* await Folder.find().sort({ order: 1, createdAt: 1 }) resolves
ReorderFoldersFind ==
    /\ freq.route = "reorder-folders" /\ freq.pc = "find"
    /\ freq' = FolderRespond([freq EXCEPT !.listing = SortFolders(folders, ByOrderThenCreated)], 200)
    /\ UNCHANGED <<mediaVars, authVars, folders, raceVars>>

\* an awaited database call of a folder route rejects
FolderDbError ==
    /\ freq.pc \in {"findOne", "findById", "save", "find", "bulkWrite"}
    /\ freq' = FolderRespond(freq, 500)
    /\ UNCHANGED <<mediaVars, authVars, folders, raceVars>>

\* the response is out and the request object dropped
FolderFinish ==
    /\ freq.pc = "done"
    /\ freq' = IdleFreq
    /\ UNCHANGED <<mediaVars, authVars, folders, raceVars>>

InitFolders ==
    /\ dbImages = <<>> /\ dbVideos = <<>>
    /\ cdnImages = {} /\ cdnVideos = {}
    /\ nextId = 0
    /\ temp = {}
    /\ req = IdleReq
    /\ admins = {}
    /\ areq = IdleAreq
    /\ folders = {} /\ freq = IdleFreq
    /\ dbVersion = 0 /\ racers = NoRacers /\ inits = NoInits

\* the ids a client names: those of the stored folders and one of none
NamedFolderIds == {d.id : d \in folders} \cup {"zz"}

FolderRequest ==
    \/ \E name \in {Absent, ""} \cup FolderNames : FolderCreateStart(name)
    \/ \E id \in NamedFolderIds, name \in {""} \cup FolderNames : FolderRenameStart(id, name)
    \/ FolderListStart
    \/ \E folderIds \in {JsUndef} \cup {JsArr(o) : o \in SeqsUpTo(NamedFolderIds, MaxOrder)} :
          ReorderFoldersStart(folderIds)

NextFolders ==
    \/ FolderRequest
    \/ FolderCreateFindOne \/ FolderCreateSave
    \/ FolderRenameFindById \/ FolderRenameSave
    \/ FolderList
    \/ ReorderFoldersBulkWrite \/ ReorderFoldersFind
    \/ FolderDbError \/ FolderFinish

SpecFolders == InitFolders /\ [][NextFolders]_vars

----------------------------------------------------------------------------
(* Two overlapping requests on the Folder: uploads of image files and        *)
(* reorders of the images.  Each request works on the document it loaded;    *)
(* folder.save() sends what the request changed: the records pushed on an    *)
(* array as a $push, an array assigned as a whole as a $set that is applied  *)
(* only if the stored __v is still the one loaded.  Database and Cloudinary  *)
(* calls do not fail otherwise, so that a failure here is caused by the      *)
(* other request.                                                            *)

\* the files the uploads in flight have still to send to Cloudinary
RECURSIVE Outstanding(_)
Outstanding(r) ==
    IF r = 0 THEN 0
    ELSE Outstanding(r - 1)
            + IF racers[r].op = "upload" THEN racers[r].files - Len(racers[r].pushed) ELSE 0

\* variant: save writes the array of the document in memory
SaveWhole(stored, memory, pushed) == memory

\* the stored array after the $push of a save
SavePushes(stored, memory, pushed) == stored \o pushed

\* the number of requests that have completed their save
Saves == Cardinality({r \in 1..2 : racers[r].saved > 0})

\* POST /:folderId with image files arrives
RaceUploadStart(r, files) ==
    /\ racers[r].pc = "idle"
    /\ nextId + Outstanding(2) + files <= MaxUploads
    /\ racers' = [racers EXCEPT ![r] = [IdleRacer EXCEPT !.op = "upload", !.pc = "find",
                                                          !.files = files]]
    /\ UNCHANGED <<mediaVars, authVars, folderVars, dbVersion, inits>>

\* PATCH /:folderId/reorder with an imagesOrder arrives
RaceReorderStart(r, imagesOrder) ==
    /\ racers[r].pc = "idle"
    /\ racers' = [racers EXCEPT ![r] = [IdleRacer EXCEPT !.op = "reorder", !.pc = "find",
                                                          !.order = imagesOrder]]
    /\ UNCHANGED <<mediaVars, authVars, folderVars, dbVersion, inits>>

\* await Folder.findById(folderId) resolves: the document is loaded with its
\* __v; a reorder assigns folder.images at once.  An assigned array that
\* differs from the loaded one is a modification; whether an equal one
\* counts as a modification is left open
RaceFind(r) ==
    /\ racers[r].pc = "find"
    /\ LET loaded == [racers[r] EXCEPT !.images = dbImages, !.version = dbVersion]
           newImages == ReorderOne(dbImages, racers[r].order)
       IN IF racers[r].op = "upload"
          THEN racers' = [racers EXCEPT ![r] =
                            [loaded EXCEPT !.pc = IF loaded.files > 0 THEN "upload" ELSE "save"]]
          ELSE \E modified \in BOOLEAN :
                  /\ modified => IsArray(racers[r].order)
                  /\ newImages # dbImages => modified
                  /\ racers' = [racers EXCEPT ![r] =
                                   [loaded EXCEPT !.pc = "save", !.images = newImages,
                                                  !.modified = modified]]
    /\ UNCHANGED <<mediaVars, authVars, folderVars, dbVersion, inits>>

\* one iteration of the image loop: the record is pushed on folder.images
RaceUpload(r) ==
    /\ racers[r].pc = "upload"
    /\ LET imageObj == ImageObj(UploadIds[nextId + 1], Absent)
           pushed == Append(racers[r].pushed, imageObj)
       IN /\ nextId' = nextId + 1
          /\ cdnImages' = cdnImages \cup {imageObj.public_id}
          /\ racers' = [racers EXCEPT ![r].images = Append(@, imageObj),
                                       ![r].pushed = pushed,
                                       ![r].pc = IF Len(pushed) < racers[r].files
                                                 THEN "upload" ELSE "save"]
    /\ UNCHANGED <<dbImages, dbVideos, cdnVideos, temp, req, authVars, folderVars, dbVersion, inits>>

\* await folder.save(), then the response: nothing is sent for an unmodified
\* document; pushed records are appended to the stored array and __v is
\* incremented; an assigned array replaces the stored one and increments __v
\* if __v is the one loaded, and the save rejects (500) if it is not
RaceSave(r) ==
    /\ racers[r].pc = "save"
    /\ LET me == racers[r]
           done == [me EXCEPT !.pc = "done", !.saved = Saves + 1]
       IN IF me.op = "upload" /\ Len(me.pushed) > 0
          THEN /\ dbImages' = SavePushes(dbImages, me.images, me.pushed)
               /\ dbVersion' = dbVersion + 1
               /\ racers' = [racers EXCEPT ![r] = [done EXCEPT !.status = 200]]
          ELSE IF me.op = "reorder" /\ me.modified
          THEN IF dbVersion = me.version
               THEN /\ dbImages' = me.images
                    /\ dbVersion' = dbVersion + 1
                    /\ racers' = [racers EXCEPT ![r] = [done EXCEPT !.status = 200]]
               ELSE /\ racers' = [racers EXCEPT ![r] = [done EXCEPT !.status = 500]]
                    /\ UNCHANGED <<dbImages, dbVersion>>
          ELSE /\ racers' = [racers EXCEPT ![r] = [done EXCEPT !.status = 200]]
               /\ UNCHANGED <<dbImages, dbVersion>>
    /\ UNCHANGED <<dbVideos, cdnImages, cdnVideos, nextId, temp, req, authVars, folderVars, inits>>

\* the folder the two requests find: empty, or two images from earlier uploads
InitRace ==
    /\ \/ dbImages = <<>> /\ nextId = 0
       \/ dbImages = <<ImageObj("p1", Absent), ImageObj("p2", "L1")>> /\ nextId = 2
    /\ dbVideos = <<>>
    /\ cdnImages = {dbImages[k].public_id : k \in DOMAIN dbImages}
    /\ cdnVideos = {}
    /\ temp = {}
    /\ req = IdleReq
    /\ admins = {}
    /\ areq = IdleAreq
    /\ folders = {} /\ freq = IdleFreq
    /\ dbVersion = 0 /\ racers = NoRacers /\ inits = NoInits

RaceRequest ==
    \E r \in 1..2 :
        \/ \E files \in 0..MaxFiles : RaceUploadStart(r, files)
        \/ \E imagesOrder \in {JsUndef, JsArr(<<>>), JsArr(<<"p2">>),
                                JsArr(Reversed(IdsOf(dbImages)))} :
              RaceReorderStart(r, imagesOrder)

NextRace == RaceRequest \/ \E r \in 1..2 : RaceFind(r) \/ RaceUpload(r) \/ RaceSave(r)

SpecRace == InitRace /\ [][NextRace]_vars

----------------------------------------------------------------------------
(* Two POST /init-admin requests whose handlers overlap: each await of the
   handler is a step, and the steps of the two requests interleave *)

\* whether the Admin collection takes a new document with this email: the
\* identity store is described with no unique key, so it takes the document
\* whatever it already holds
AdminAccepted(stored, email) == TRUE

\* the request arrives
InitRaceStart(r, email, password) ==
    /\ inits[r].pc = "idle"
    /\ inits' = [inits EXCEPT ![r] = [IdleInit EXCEPT !.pc = "count", !.email = email,
                                                      !.password = password]]
    /\ UNCHANGED <<mediaVars, authVars, folderVars, dbVersion, racers>>

\* await Admin.countDocuments() resolves, then the credential comparison
InitRaceCount(r) ==
    /\ inits[r].pc = "count"
    /\ inits' = [inits EXCEPT ![r] =
          IF Cardinality(admins) > 0 THEN [@ EXCEPT !.pc = "done", !.status = 400]
          ELSE IF @.email # EnvAdminEmail \/ @.password # EnvAdminPassword
          THEN [@ EXCEPT !.pc = "done", !.status = 401]
          ELSE [@ EXCEPT !.pc = "hash"]]
    /\ UNCHANGED <<mediaVars, authVars, folderVars, dbVersion, racers>>

\* await bcrypt.hash(password, 10) resolves
InitRaceHash(r) ==
    /\ inits[r].pc = "hash"
    /\ inits' = [inits EXCEPT ![r].pc = "save"]
    /\ UNCHANGED <<mediaVars, authVars, folderVars, dbVersion, racers>>

\* await newAdmin.save() resolves and the token is sent, or the store turns
\* the document down and the catch block answers 500
InitRaceSave(r) ==
    /\ inits[r].pc = "save"
    /\ Cardinality(admins) < MaxAdmins
    /\ LET email == NormalizeEmail(inits[r].email)
       IN IF AdminAccepted(admins, email)
          THEN /\ admins' = admins \cup {StoredAdmin(AdminIds[Cardinality(admins) + 1], email)}
               /\ inits' = [inits EXCEPT ![r].pc = "done", ![r].status = 200]
          ELSE /\ inits' = [inits EXCEPT ![r].pc = "done", ![r].status = 500]
               /\ UNCHANGED admins
    /\ UNCHANGED <<mediaVars, areq, folderVars, dbVersion, racers>>

\* an awaited call rejects: the catch block answers 500
InitRaceError(r) ==
    /\ inits[r].pc \in {"count", "hash", "save"}
    /\ inits' = [inits EXCEPT ![r].pc = "done", ![r].status = 500]
    /\ UNCHANGED <<mediaVars, authVars, folderVars, dbVersion, racers>>

\* the response is out and the request object dropped
InitRaceFinish(r) ==
    /\ inits[r].pc = "done"
    /\ inits' = [inits EXCEPT ![r] = IdleInit]
    /\ UNCHANGED <<mediaVars, authVars, folderVars, dbVersion, racers>>

InitInitRace ==
    /\ dbImages = <<>> /\ dbVideos = <<>>
    /\ cdnImages = {} /\ cdnVideos = {}
    /\ nextId = 0
    /\ temp = {}
    /\ req = IdleReq
    /\ admins = {}
    /\ areq = IdleAreq
    /\ folders = {} /\ freq = IdleFreq
    /\ dbVersion = 0 /\ racers = NoRacers /\ inits = NoInits

InitRaceRequest ==
    \E r \in 1..2, email \in {EnvEmail, OtherEmail}, password \in {EnvAdminPassword, "pw"} :
        InitRaceStart(r, email, password)

NextInitRace ==
    \/ InitRaceRequest
    \/ \E r \in 1..2 : InitRaceCount(r) \/ InitRaceHash(r) \/ InitRaceSave(r)
                        \/ InitRaceError(r) \/ InitRaceFinish(r)

SpecInitRace == InitInitRace /\ [][NextInitRace]_vars

----------------------------------------------------------------------------
(* The reorder route alone, started from every stored collection *)

InitReorder ==
    /\ \/ dbImages \in StoredImages /\ dbVideos = <<>>
       \/ dbImages = <<>> /\ dbVideos \in StoredVideos
    /\ cdnImages = {dbImages[k].public_id : k \in DOMAIN dbImages}
    /\ cdnVideos = {dbVideos[k].public_id : k \in DOMAIN dbVideos}
    /\ nextId = MaxUploads
    /\ temp = {}
    /\ req = IdleReq
    /\ admins = {}
    /\ areq = IdleAreq
    /\ folders = {} /\ freq = IdleFreq
    /\ dbVersion = 0 /\ racers = NoRacers /\ inits = NoInits

ReorderRequest ==
    \/ \E io \in OrderInputsFor(dbImages), vo \in SmallOrderInputs : ReorderStart("f1", io, vo)
    \/ \E io \in SmallOrderInputs, vo \in OrderInputsFor(dbVideos) : ReorderStart("f1", io, vo)
    \/ \E io \in SmallOrderInputs : ReorderStart("gone", io, JsUndef)

NextReorder == ReorderRequest \/ ReorderSteps \/ Finish

SpecReorder == InitReorder /\ [][NextReorder]_vars

----------------------------------------------------------------------------
(* The upload route alone, on a folder that starts empty *)

InitUpload ==
    /\ dbImages = <<>> /\ dbVideos = <<>>
    /\ cdnImages = {} /\ cdnVideos = {}
    /\ nextId = 0
    /\ temp = {}
    /\ req = IdleReq
    /\ admins = {}
    /\ areq = IdleAreq
    /\ folders = {} /\ freq = IdleFreq
    /\ dbVersion = 0 /\ racers = NoRacers /\ inits = NoInits

\* a batch of an image, a video and an image, sent in the generic field or in
\* the fields of their kinds, with a list of two labels
MixedBatches ==
    {<<[field |-> "file", mimetype |-> MimePng], [field |-> "file", mimetype |-> MimeMp4],
       [field |-> "file", mimetype |-> MimePng]>>,
     <<[field |-> "images", mimetype |-> MimePng], [field |-> "videos", mimetype |-> MimeMp4],
       [field |-> "images", mimetype |-> MimePng]>>}
MixedBatchBodies ==
    {[NoBody EXCEPT !.imageLabels = JsArr(<<"L1", "L2">>)],
     [NoBody EXCEPT !.labels = JsArr(<<"L1", "L2">>)]}

UploadRequest ==
    \/ \E kinds \in SeqsUpTo(FileKinds, MaxFiles), body \in BodyInputs :
          /\ nextId + Len(kinds) <= MaxFiles
          /\ UploadStart("f1", kinds, body)
    \/ \E kinds \in MixedBatches, body \in MixedBatchBodies : UploadStart("f1", kinds, body)
    \/ \E kinds \in SeqsUpTo(FileKinds, 1) : UploadStart("gone", kinds, NoBody)

NextUpload == UploadRequest \/ UploadSteps \/ Finish

SpecUpload == InitUpload /\ [][NextUpload]_vars

----------------------------------------------------------------------------
(* All four media routes on one folder, one request after another *)

Init ==
    /\ dbImages = <<>> /\ dbVideos = <<>>
    /\ cdnImages = {} /\ cdnVideos = {}
    /\ nextId = 0
    /\ temp = {}
    /\ req = IdleReq
    /\ admins = {}
    /\ areq = IdleAreq
    /\ folders = {} /\ freq = IdleFreq
    /\ dbVersion = 0 /\ racers = NoRacers /\ inits = NoInits

\* the public_ids stored in the folder, and one that is not
StoredIds == Range(IdsOf(dbImages)) \cup Range(IdsOf(dbVideos))
NamedIds == StoredIds \cup ForeignIds

\* the order lists tried on a collection: none, its ids reversed, one of its
\* ids twice, an unknown id
OrdersTried(coll) ==
    {JsUndef, JsArr(Reversed(IdsOf(coll))), JsArr(<<"zz">>)}
        \cup {JsArr(<<id, id>>) : id \in Range(IdsOf(coll))}

MediaRequest ==
    \/ \E kinds \in SeqsUpTo({[field |-> "images", mimetype |-> MimePng],
                              [field |-> "file", mimetype |-> MimeMp4]}, MaxFiles) :
          /\ Len(dbImages) + Len(dbVideos) + Len(kinds) <= MaxStored
          /\ nextId + Len(kinds) <= MaxStored
          /\ UploadStart("f1", kinds, NoBody)
    \/ \E pid \in NamedIds : DeleteStart("f1", pid)
    \/ \E pid \in NamedIds, newName \in RenameNames \cup StoredIds :
          UpdateStart("f1", pid, newName, Absent, Absent)
    \/ \E pid \in NamedIds : UpdateStart("f1", pid, Absent, "M1", "M1")
    \/ \E io \in OrdersTried(dbImages), vo \in OrdersTried(dbVideos) :
          /\ JsUndef \in {io, vo}
          /\ Len(ReorderOne(dbImages, io)) + Len(ReorderOne(dbVideos, vo)) <= MaxStored
          /\ ReorderStart("f1", io, vo)
    \/ \E pid \in ForeignIds :
          \/ DeleteStart("gone", pid)
          \/ UpdateStart("gone", pid, "r1", "M1", "M1")

Next == MediaRequest \/ UploadSteps \/ DeleteSteps \/ UpdateSteps \/ ReorderSteps \/ Finish

Spec == Init /\ [][Next]_vars

----------------------------------------------------------------------------
(* One upload, delete or update request on each stored folder *)

\* the folders a request finds: entries left by two earlier uploads, the
\* second labelled, of which a reorder may have repeated one
FrameImages == SeqsUpTo({ImageObj("p1", Absent), ImageObj("p2", "L1")}, MaxStored)
FrameVideos == SeqsUpTo({VideoObj("p1", Absent), VideoObj("p2", "T1")}, MaxStored)

InitFrame ==
    /\ dbImages \in FrameImages /\ dbVideos \in FrameVideos
    /\ Len(dbImages) + Len(dbVideos) <= MaxStored
    /\ cdnImages = {dbImages[k].public_id : k \in DOMAIN dbImages}
    /\ cdnVideos = {dbVideos[k].public_id : k \in DOMAIN dbVideos}
    /\ nextId = 2
    /\ temp = {}
    /\ req = IdleReq
    /\ admins = {}
    /\ areq = IdleAreq
    /\ folders = {} /\ freq = IdleFreq
    /\ dbVersion = 0 /\ racers = NoRacers /\ inits = NoInits

FrameRequest ==
    \/ \E kinds \in SeqsUpTo({[field |-> "images", mimetype |-> MimePng],
                              [field |-> "file", mimetype |-> MimeMp4]}, MaxFiles) :
          UploadStart("f1", kinds, NoBody)
    \/ \E pid \in NamedIds : DeleteStart("f1", pid)
    \/ \E pid \in NamedIds, newName \in RenameNames \cup StoredIds :
          UpdateStart("f1", pid, newName, "M1", "M1")
    \/ \E pid \in NamedIds : UpdateStart("f1", pid, Absent, "M1", "M1")

NextFrame == FrameRequest \/ UploadSteps \/ DeleteSteps \/ UpdateSteps

SpecFrame == InitFrame /\ [][NextFrame]_vars

----------------------------------------------------------------------------
(* Properties of the reorder route *)

\* how many times an entry occurs in a collection
Occurrences(coll, e) == Cardinality({k \in DOMAIN coll : coll[k] = e})

\* the same entries, each the same number of times
SameEntries(a, b) == \A e \in Range(a) \cup Range(b) : Occurrences(a, e) = Occurrences(b, e)

\* the public_ids of a collection are pairwise distinct
DistinctIds(coll) == \A j, k \in DOMAIN coll : j # k => coll[j].public_id # coll[k].public_id

\* the reorder handler has computed both collections and not yet saved them:
\* req.images / req.videos are the results, dbImages / dbVideos the inputs
ReorderComputed == req.op = "reorder" /\ req.pc = "save"

\* the ids of an order list that match an entry of the collection
KnownIds(coll, order) == SelectSeq(order, LAMBDA pid : \E k \in DOMAIN coll : coll[k].public_id = pid)

\* the ids of the collection that the order list does not name
OmittedIds(coll, order) == SelectSeq(IdsOf(coll), LAMBDA pid : \A k \in DOMAIN order : order[k] # pid)

\* C1: for a collection with pairwise distinct public_ids and any order list,
\* the reordered collection holds every entry of the collection exactly once
\* (the same entries, none dropped, none duplicated).
C1_ReorderIsPermutation ==
    ReorderComputed =>
        /\ (IsArray(req.imagesOrder) /\ DistinctIds(dbImages)) => SameEntries(req.images, dbImages)
        /\ (IsArray(req.videosOrder) /\ DistinctIds(dbVideos)) => SameEntries(req.videos, dbVideos)

\* the result of one collection is the listed part followed by the omitted part
StableMerge(result, coll, order) ==
    /\ IdsOf(result) = KnownIds(coll, order) \o OmittedIds(coll, order)
    /\ Range(result) \subseteq Range(coll)

\* C2: the reordered collection starts with the entries whose ids occur in
\* the order list, in the order list's order, followed by the entries the
\* list omits, in their original relative order.
C2_ReorderIsStableMerge ==
    ReorderComputed =>
        /\ IsArray(req.imagesOrder) => StableMerge(req.images, dbImages, req.imagesOrder.a)
        /\ IsArray(req.videosOrder) => StableMerge(req.videos, dbVideos, req.videosOrder.a)

\* current [a,b,c] with order [c,a] has given [c,a,b]
C2_Witness ==
    /\ ReorderComputed
    /\ IdsOf(dbImages) = <<"p1", "p2", "p3">>
    /\ req.imagesOrder = JsArr(<<"p3", "p1">>)
    /\ IdsOf(req.images) = <<"p3", "p1", "p2">>

\* C8: reordering the result of a reorder with the same order list changes nothing.
C8_ReorderIdempotent ==
    ReorderComputed =>
        /\ ReorderOne(req.images, req.imagesOrder) = req.images
        /\ ReorderOne(req.videos, req.videosOrder) = req.videos

\* a reorder that moved entries, with a partial list naming an unknown id
C8_Witness ==
    /\ ReorderComputed
    /\ IsArray(req.videosOrder)
    /\ req.videos # dbVideos
    /\ Len(req.videos) = 3
    /\ Includes(req.videosOrder.a, "zz")

\* C9: ids of the order list that match no entry are ignored (the result is
\* the result for the list without them), and a reorder of a stored folder
\* answers 200 unless a database call failed.
C9_UnknownIdsIgnored ==
    /\ ReorderComputed =>
        /\ IsArray(req.imagesOrder) =>
              req.images = Reconcile(dbImages, KnownIds(dbImages, req.imagesOrder.a))
        /\ IsArray(req.videosOrder) =>
              req.videos = Reconcile(dbVideos, KnownIds(dbVideos, req.videosOrder.a))
    /\ (req.op = "reorder" /\ req.pc = "done" /\ FolderFound(req.folderId) /\ req.error = "none")
          => req.status = 200

\* a reorder whose list names an unknown id before a known one has answered 200
C9_Witness ==
    /\ req.op = "reorder" /\ req.pc = "done" /\ req.status = 200
    /\ IsArray(req.imagesOrder)
    /\ Len(req.imagesOrder.a) = 2
    /\ req.imagesOrder.a[1] = "zz"
    /\ Len(dbImages) >= 2
    /\ dbImages[1].public_id = req.imagesOrder.a[2]
    /\ dbImages = req.images

\* C15: a reorder whose order list is empty computes the collection it
\* loaded, the same entries in the same order, and its save leaves the stored
\* collection as it was.
C15_EmptyOrderChangesNothing ==
    /\ ReorderComputed =>
        /\ req.imagesOrder = JsArr(<<>>) => req.images = dbImages
        /\ req.videosOrder = JsArr(<<>>) => req.videos = dbVideos
    /\ (req.op = "reorder" /\ req.pc = "done" /\ req.status = 200) =>
        /\ req.imagesOrder = JsArr(<<>>) => dbImages = req.images
        /\ req.videosOrder = JsArr(<<>>) => dbVideos = req.videos

\* three videos with an empty order list: the result is the stored collection
C15_Witness ==
    /\ ReorderComputed
    /\ req.videosOrder = JsArr(<<>>)
    /\ Len(dbVideos) = 3
    /\ DistinctIds(dbVideos)
    /\ req.videos = dbVideos

\* C16: for a collection with pairwise distinct public_ids, a reorder whose
\* order list is the collection's ids from last to first computes the
\* collection reversed.
C16_ReversedOrderReverses ==
    ReorderComputed =>
        /\ (IsArray(req.imagesOrder) /\ DistinctIds(dbImages)
               /\ req.imagesOrder.a = [k \in DOMAIN dbImages |->
                                          dbImages[Len(dbImages) + 1 - k].public_id])
              => req.images = [k \in DOMAIN dbImages |-> dbImages[Len(dbImages) + 1 - k]]
        /\ (IsArray(req.videosOrder) /\ DistinctIds(dbVideos)
               /\ req.videosOrder.a = [k \in DOMAIN dbVideos |->
                                          dbVideos[Len(dbVideos) + 1 - k].public_id])
              => req.videos = [k \in DOMAIN dbVideos |-> dbVideos[Len(dbVideos) + 1 - k]]

\* images [p1,p2,p3] with the order list [p3,p2,p1] have given [p3,p2,p1]
C16_Witness ==
    /\ ReorderComputed
    /\ IdsOf(dbImages) = <<"p1", "p2", "p3">>
    /\ req.imagesOrder = JsArr(<<"p3", "p2", "p1">>)
    /\ IdsOf(req.images) = <<"p3", "p2", "p1">>
    /\ req.images[1].label = "L1"

----------------------------------------------------------------------------
(* Properties of the upload route *)

UploadDone == req.op = "upload" /\ req.pc = "done"
UploadSucceeded == UploadDone /\ req.status = 200

\* C3: the record made for the file at 0-based index i of its kind's file
\* list carries the i-th value of that kind's metadata list when the list is
\* that long and no metadata otherwise; a successful upload has made one
\* record per file of each kind, whatever the lengths of the lists.
C3_MetadataZippedWithinKind ==
    req.op = "upload" =>
        /\ \A k \in DOMAIN req.results.images :
              req.results.images[k].label =
                  IF IsArray(req.imageLabels) /\ k <= Len(req.imageLabels.a)
                  THEN req.imageLabels.a[k] ELSE Absent
        /\ \A k \in DOMAIN req.results.videos :
              req.results.videos[k].title =
                  IF IsArray(req.videoTitles) /\ k <= Len(req.videoTitles.a)
                  THEN req.videoTitles.a[k] ELSE Absent
        /\ req.status = 200 =>
              /\ Len(req.results.images) = Len(req.imageFiles)
              /\ Len(req.results.videos) = Len(req.videoFiles)

\* one image file with two labels and one video file with two titles: the
\* second value of each list is discarded
C3_LongListWitness ==
    /\ UploadSucceeded
    /\ Len(req.imageFiles) = 1 /\ Len(req.videoFiles) = 1
    /\ IsArray(req.imageLabels) /\ Len(req.imageLabels.a) = 2
    /\ IsArray(req.videoTitles) /\ Len(req.videoTitles.a) = 2
    /\ req.results.images[1].label = "L1"
    /\ req.results.videos[1].title = "T1"

\* two image files with a single label: the second record has no label
C3_Witness ==
    /\ UploadSucceeded
    /\ Len(req.imageFiles) = 2
    /\ req.imageLabels = JsArr(<<"L1">>)
    /\ req.results.images[1].label = "L1"
    /\ req.results.images[2].label = Absent

\* C4: when the response of an upload request is sent, none of the temp
\* files the request received is left in temp storage.
C4_TempFilesReleased == UploadDone => temp = {}

\* the file matches neither prefix
MatchesNeither(f) == ~MimeIs(f, ImagePrefix) /\ ~MimeIs(f, VideoPrefix)

\* no record is made for the file: it is in neither file list
Dropped(r, f) ==
    /\ \A j \in DOMAIN r.imageFiles : r.imageFiles[j].path # f.path
    /\ \A j \in DOMAIN r.videoFiles : r.videoFiles[j].path # f.path

\* C10 as stated: a file whose MIME type starts with neither prefix is
\* dropped and the response carries an error entry for it.
C10_DroppedFileReported ==
    UploadSucceeded =>
        \A k \in DOMAIN req.files :
            MatchesNeither(req.files[k]) =>
                /\ Dropped(req, req.files[k])
                /\ "errors" \in DOMAIN UploadResponse(req)

\* C10 amended: a file of the generic `file` field whose MIME type starts
\* with neither prefix is dropped without a report (the response holds only
\* the image and video records); every other file of the batch has its
\* record and the upload succeeds.
C10_GenericFileDroppedSilently ==
    UploadSucceeded =>
        /\ \A k \in DOMAIN req.files :
              Dropped(req, req.files[k])
                  <=> (req.files[k].field = "file" /\ MatchesNeither(req.files[k]))
        /\ Len(req.results.images) = Len(req.imageFiles)
        /\ Len(req.results.videos) = Len(req.videoFiles)
        /\ DOMAIN UploadResponse(req) = {"uploaded"}
        /\ DOMAIN UploadResponse(req).uploaded = {"images", "videos"}

\* a text file and an image sent in the generic field: one image record, status 200
C10_Witness ==
    /\ UploadSucceeded
    /\ Len(req.files) = 2
    /\ req.files[1].field = "file" /\ req.files[1].mimetype = MimeText
    /\ req.files[2].field = "file" /\ req.files[2].mimetype = MimePng
    /\ Len(req.results.images) = 1 /\ Len(req.results.videos) = 0
    /\ Len(dbImages) = 1

\* the labels of image records and the titles of video records, in order
LabelsOf(coll) == [k \in DOMAIN coll |-> coll[k].label]
TitlesOf(coll) == [k \in DOMAIN coll |-> coll[k].title]

\* the form field and MIME type of the files received, in arrival order
KindsOf(files) == [k \in DOMAIN files |->
                     [field |-> files[k].field, mimetype |-> files[k].mimetype]]

\* an upload of [image, video, image], all in the generic field or each in
\* the field of its kind, with the label list ["L1","L2"] and no title list,
\* has succeeded
MixedBatchUploaded ==
    /\ UploadSucceeded
    /\ KindsOf(req.files) \in MixedBatches
    /\ req.imageLabels = JsArr(<<"L1", "L2">>)
    /\ req.videoTitles = JsUndef

\* C11 as stated: uploading [fileA (image), fileB (video), fileC (image)]
\* with metadata ["L1","L2"] yields the image records (fileA,"L1"),
\* (fileC, no label) and the video record (fileB, no title).
C11_MixedBatchByBatchPosition ==
    MixedBatchUploaded =>
        /\ LabelsOf(req.results.images) = <<"L1", Absent>>
        /\ TitlesOf(req.results.videos) = <<Absent>>

\* C11 amended: the same upload (the three files sent in one form field, or
\* each in the field of its kind) yields the image records (fileA,"L1"),
\* (fileC,"L2") and the video record (fileB, no title): fileC is the image at
\* index 1 of the image files, so it takes the second label.
C11_MixedBatchByKindPosition ==
    MixedBatchUploaded =>
        /\ LabelsOf(req.results.images) = <<"L1", "L2">>
        /\ TitlesOf(req.results.videos) = <<Absent>>
        /\ [k \in 1..2 |-> req.imageFiles[k].path] = <<1, 3>>
        /\ [k \in 1..1 |-> req.videoFiles[k].path] = <<2>>

\* the mixed batch was sent in the generic field and its three records are stored
C11_Witness ==
    /\ MixedBatchUploaded
    /\ \A k \in DOMAIN req.files : req.files[k].field = "file"
    /\ Len(dbImages) = 2 /\ Len(dbVideos) = 1
    /\ dbImages[2].label = "L2"

\* C12: when the metadata field of a kind is a single string, the record of
\* the first file of that kind carries the string and the record of every
\* other file of that kind carries no label / title.
C12_SingleStringOnlyFirst ==
    req.op = "upload" =>
        /\ req.body.imageLabels.t = "string" =>
              \A k \in DOMAIN req.results.images :
                  req.results.images[k].label = IF k = 1 THEN req.body.imageLabels.s ELSE Absent
        /\ req.body.videoTitles.t = "string" =>
              \A k \in DOMAIN req.results.videos :
                  req.results.videos[k].title = IF k = 1 THEN req.body.videoTitles.s ELSE Absent

\* two image files uploaded with the single label "s": the stored records
\* carry "s" and nothing
C12_Witness ==
    /\ UploadSucceeded
    /\ req.body.imageLabels = JsStr("s")
    /\ Len(req.imageFiles) = 2
    /\ LabelsOf(dbImages) = <<"s", Absent>>

UploadCallPending == req.op = "upload" /\ req.pc \in {"images", "videos"}

\* the records built so far and the files picked out of the batch so far
RecordsBuilt == Len(req.results.images) + Len(req.results.videos)
FilesPicked == Len(req.imageFiles) + Len(req.videoFiles)

\* C21 as stated: every CDN or database call of an upload request lies
\* before or after the normalization of the whole batch: while a call is
\* pending, either no record of the batch has been built or every file of
\* the batch has been picked out by kind and has its record.
C21_NoCallInsideNormalization ==
    (req.op = "upload" /\ req.pc \in {"find", "images", "videos", "save"}) =>
        \/ RecordsBuilt = 0 /\ (req.pc = "find" => FilesPicked = 0)
        \/ /\ req.videoFiles = VideoFilesOf(req.files)
           /\ Len(req.results.images) = Len(req.imageFiles)
           /\ Len(req.results.videos) = Len(req.videoFiles)

\* C21 amended: labels, titles and the image files are worked out before the
\* first CDN call, but the record of a file is built only when the CDN call
\* for that file has resolved and the video files are picked out only after
\* the last image call: while the call for image i is pending exactly the
\* records of the i images before it are built and no video file is picked,
\* while the call for video i is pending every image record and exactly the
\* records of the i videos before it are built, and the database write comes
\* after the last record. Every resolved CDN call builds exactly one record.
C21_RecordsBuiltBetweenCalls ==
    /\ [](req.op = "upload" =>
            /\ req.pc = "find" => RecordsBuilt = 0 /\ FilesPicked = 0
            /\ req.pc = "images" =>
                  /\ req.i < Len(req.imageFiles)
                  /\ Len(req.results.images) = req.i
                  /\ req.results.videos = <<>> /\ req.videoFiles = <<>>
            /\ req.pc = "videos" =>
                  /\ Len(req.results.images) = Len(req.imageFiles)
                  /\ req.i < Len(req.videoFiles)
                  /\ Len(req.results.videos) = req.i
            /\ req.pc = "save" =>
                  /\ Len(req.results.images) = Len(req.imageFiles)
                  /\ Len(req.results.videos) = Len(req.videoFiles)
            /\ req.pc \in {"videos", "save"} =>
                  \A k \in DOMAIN req.files :
                      (req.files[k].field = "videos" \/
                       (req.files[k].field = "file" /\ MimeIs(req.files[k], VideoPrefix)))
                          => \E j \in DOMAIN req.videoFiles :
                                 req.videoFiles[j].path = req.files[k].path)
    /\ [][(UploadCallPending /\ nextId' # nextId) =>
              (RecordsBuilt' = RecordsBuilt + 1 /\ nextId' = nextId + 1)]_vars

\* the call for the second image of a batch is pending: the record of the
\* first image is built and its file is on the CDN, the second has no record
C21_Witness ==
    /\ UploadCallPending /\ req.pc = "images" /\ req.i = 1
    /\ Len(req.imageFiles) = 2
    /\ Len(req.results.images) = 1
    /\ req.results.images[1].public_id \in cdnImages

\* the upload request was answered after a CDN upload call rejected
UploadCallFailed == UploadDone /\ req.error = "cdn"

\* C23: when the CDN upload call fails for a file of a batch, the request
\* answers 500 and the stored folder is what the request loaded: the records
\* built for the files uploaded before the failure exist only in the
\* request's memory, none of their ids is stored, and the failing step
\* itself writes nothing to the store.
C23_FailedUploadPersistsNothing ==
    /\ [](UploadCallFailed =>
            /\ req.status = 500
            /\ req.images = dbImages \o req.results.images
            /\ req.videos = dbVideos \o req.results.videos
            /\ \A k \in DOMAIN req.results.images :
                  \A j \in DOMAIN dbImages :
                      dbImages[j].public_id # req.results.images[k].public_id
            /\ \A k \in DOMAIN req.results.videos :
                  \A j \in DOMAIN dbVideos :
                      dbVideos[j].public_id # req.results.videos[k].public_id)
    /\ [][(UploadCallPending /\ req'.pc = "done") =>
              (dbImages' = dbImages /\ dbVideos' = dbVideos)]_vars

\* the call for the second image of a batch failed: the first image is on the
\* CDN, its record was built, and the stored folder does not hold it
C23_Witness ==
    /\ UploadCallFailed
    /\ Len(req.imageFiles) = 2
    /\ Len(req.results.images) = 1
    /\ req.results.images[1].public_id \in cdnImages
    /\ \A j \in DOMAIN dbImages : dbImages[j].public_id # req.results.images[1].public_id

----------------------------------------------------------------------------
(* Properties of the stored folder *)

\* C5: after any sequence of upload, delete, update/rename and reorder
\* requests, the public_ids within folder.images are pairwise distinct and so
\* are the public_ids within folder.videos.
C5_StoredIdsDistinct == DistinctIds(dbImages) /\ DistinctIds(dbVideos)

----------------------------------------------------------------------------
(* Properties of the authentication gate *)

\* the payload of the presented token
Decoded == BearerToken(areq.header)

\* a bearer credential is presented
Presented == areq.header.scheme = "Bearer" /\ areq.header.token.kind # "empty"

\* the presented credential has a good signature and has not expired
CredentialVerified == Presented /\ areq.header.token.kind = "signed"

\* the gate has just reached a terminal state: the Admin collection is as the
\* gate's lookup saw it
GateDecided ==
    /\ areq.route = "create-admin"
    /\ \/ areq.gate = "Verified" /\ areq.pc = "handler"
       \/ areq.gate = "Rejected"

\* a credential with an id is Verified exactly when the lookup finds the admin
ResolvedById ==
    /\ areq.gate = "Verified" =>
          /\ FindAdminById(Decoded.id).set
          /\ areq.currentAdmin = FindAdminById(Decoded.id)
    /\ areq.gate = "Rejected" =>
          /\ areq.status \in {401, 500}
          /\ areq.status = 401 => ~FindAdminById(Decoded.id).set

StoredByEmail == FindAdminByEmail(NormalizeEmail(Decoded.email))

\* C6 as stated: a verified credential with an id is Verified exactly when the
\* lookup by id finds a stored identity; one without an id is Verified, with
\* the claim-based identity, only when it is marked isEnvAdmin, and is
\* Rejected in every other case.
C6_GateResolution ==
    (GateDecided /\ CredentialVerified) =>
        IF Decoded.id # Absent THEN ResolvedById
        ELSE areq.gate = "Verified" =>
                /\ Decoded.isEnvAdmin
                /\ areq.currentAdmin = EnvIdentity(Decoded)

\* C6 amended: a verified credential without an id but with an email is
\* Verified with the stored identity found under the normalised email; when
\* there is none it is Verified with the claim-based identity provided it is
\* marked isEnvAdmin; it is Rejected in every other case.
C6_GateResolutionWithEmailLookup ==
    (GateDecided /\ CredentialVerified) =>
        IF Decoded.id # Absent THEN ResolvedById
        ELSE /\ areq.gate = "Verified" =>
                  /\ Decoded.email # NoEmail
                  /\ StoredByEmail.set \/ Decoded.isEnvAdmin
                  /\ areq.currentAdmin =
                        IF StoredByEmail.set THEN StoredByEmail ELSE EnvIdentity(Decoded)
             /\ areq.gate = "Rejected" =>
                  /\ areq.status \in {401, 500}
                  /\ areq.status = 401 =>
                        \/ Decoded.email = NoEmail
                        \/ ~StoredByEmail.set /\ ~Decoded.isEnvAdmin

\* an email-only token without the isEnvAdmin mark has been Verified with the
\* stored admin of that email
C6_Witness ==
    /\ GateDecided /\ CredentialVerified
    /\ Decoded.id = Absent /\ ~Decoded.isEnvAdmin /\ Decoded.email = EnvEmail
    /\ areq.gate = "Verified"
    /\ areq.currentAdmin = StoredAdmin("a1", RootEmail)

\* C7: the handler of a protected route runs only after the gate reached
\* Verified and attached an identity; a request without a bearer credential
\* and one whose credential fails verification are answered 401 and the
\* handler does not run.
C7_HandlerOnlyAfterVerified ==
    areq.route = "create-admin" =>
        /\ (areq.handlerRan \/ areq.pc \in {"handler", "findExisting", "save"}) =>
              /\ areq.gate = "Verified"
              /\ areq.currentAdmin.set
              /\ CredentialVerified
        /\ (areq.pc = "done" /\ ~Presented) =>
              /\ areq.status = 401 /\ areq.message = "Authorization token required"
              /\ areq.gate = "Rejected" /\ ~areq.handlerRan
        /\ (areq.pc = "done" /\ Presented /\ ~CredentialVerified) =>
              /\ areq.status = 401 /\ areq.message = "Invalid or expired token"
              /\ areq.gate = "Rejected" /\ ~areq.handlerRan

\* the handler has run for a verified bootstrap credential and created an admin
C7_Witness ==
    /\ areq.route = "create-admin" /\ areq.pc = "done" /\ areq.status = 201
    /\ areq.handlerRan /\ areq.gate = "Verified" /\ areq.currentAdmin.isEnvAdmin

\* the identity the gate attached has role admin or superadmin
RoleAllowed == areq.currentAdmin.set /\ areq.currentAdmin.role \in {"admin", "superadmin"}

\* the create-admin handler was called with an identity of another role and
\* has answered
OtherRoleAnswered ==
    /\ areq.route = "create-admin" /\ areq.pc = "done"
    /\ areq.handlerRan /\ ~RoleAllowed

\* an Admin document is only ever added for a create-admin request whose
\* attached identity has role admin or superadmin, and the request is answered 201
CreatesOnlyWhenAllowed ==
    (areq.route = "create-admin" /\ admins' # admins) => (RoleAllowed /\ areq'.status = 201)

\* C18 as stated: POST /create-admin creates an administrator only when the
\* attached identity has role admin or superadmin; for any other identity the
\* response is 403 and no administrator is created.
C18_OtherRoleAlways403 ==
    /\ (areq.route = "create-admin" /\ areq.pc \in {"findExisting", "save"}) => RoleAllowed
    /\ OtherRoleAnswered => areq.status = 403

\* C18 amended: POST /create-admin creates an administrator only when the
\* attached identity has role admin or superadmin; for any other identity no
\* administrator is created and the response is 400 when the body lacks the
\* email or the password and 403 otherwise.
C18_OtherRoleNeverCreates ==
    /\ [](/\ (areq.route = "create-admin" /\ areq.pc \in {"findExisting", "save"}) => RoleAllowed
          /\ OtherRoleAnswered =>
                areq.status = IF areq.email = NoEmail \/ areq.password = "" THEN 400 ELSE 403)
    /\ [][CreatesOnlyWhenAllowed]_vars

\* an identity of role "editor" asked for a new administrator with email and
\* password and got 403, while an administrator created earlier is stored
C18_Witness ==
    /\ OtherRoleAnswered
    /\ areq.currentAdmin.role = "editor"
    /\ areq.email # NoEmail /\ areq.password # ""
    /\ areq.status = 403
    /\ Cardinality(admins) = 1

----------------------------------------------------------------------------
(* Frame of upload, delete and update *)

\* the collection without its k-th entry
Without(coll, k) == SubSeq(coll, 1, k - 1) \o SubSeq(coll, k + 1, Len(coll))

\* `after` is `before` less exactly one entry, which has the public_id
RemovedOne(before, after, pid) ==
    \E k \in DOMAIN before : before[k].public_id = pid /\ after = Without(before, k)

\* `after` is `before` with at most the fields of one entry changed, an entry
\* that had the public_id
ChangedOne(before, after, pid) ==
    /\ Len(after) = Len(before)
    /\ \E k \in DOMAIN before :
          /\ before[k].public_id = pid
          /\ \A j \in DOMAIN before : j # k => after[j] = before[j]

\* the position of a generated public_id in the order of generation
Generation(id) == CHOOSE n \in DOMAIN UploadIds : UploadIds[n] = id

\* the records were made one after the other, first to last
InUploadOrder(records) ==
    \A j, k \in DOMAIN records :
        j < k => Generation(records[j].public_id) < Generation(records[k].public_id)

\* what a request in flight is about to save, against what is stored
FrameKept ==
    /\ (req.op = "upload" /\ req.pc \in {"images", "videos", "save"}) =>
          /\ req.images = dbImages \o req.results.images
          /\ req.videos = dbVideos \o req.results.videos
          /\ InUploadOrder(req.results.images) /\ InUploadOrder(req.results.videos)
    /\ (req.op = "delete" /\ req.pc = "save") =>
          IF req.kind = "image"
          THEN RemovedOne(dbImages, req.images, req.publicId) /\ req.videos = dbVideos
          ELSE RemovedOne(dbVideos, req.videos, req.publicId) /\ req.images = dbImages
    /\ (req.op = "update" /\ req.pc = "save") =>
          IF req.kind = "image"
          THEN ChangedOne(dbImages, req.images, req.publicId) /\ req.videos = dbVideos
          ELSE ChangedOne(dbVideos, req.videos, req.publicId) /\ req.images = dbImages

\* an upload, delete or update changes the stored collections only by its
\* save, which stores what it prepared
StoredOnlyBySave ==
    (req.op \in {"upload", "delete", "update"}
        /\ (dbImages' # dbImages \/ dbVideos' # dbVideos))
    => (req.pc = "save" /\ req'.status = 200
          /\ dbImages' = req.images /\ dbVideos' = req.videos)

\* C19: an upload stores the existing entries followed by its new records in
\* file order, a delete stores the collections less exactly the entry named,
\* an update or rename stores them with only that entry's fields changed;
\* every other entry keeps its content and position, the collection of the
\* other kind is untouched by a delete or update, and nothing else is stored.
C19_OrderKeptOutsideReorder == []FrameKept /\ [][StoredOnlyBySave]_vars

\* the second of two stored images has been deleted: the first is what is left
C19_Witness ==
    /\ req.op = "delete" /\ req.pc = "done" /\ req.status = 200
    /\ req.kind = "image" /\ req.index = 2
    /\ Len(dbImages) = 1
    /\ dbImages[1].public_id # req.publicId

----------------------------------------------------------------------------
(* Properties of the folder routes *)

\* the position of a folder in a listing, 0 when it is not listed
ListedAt(listing, id) ==
    IF \E k \in DOMAIN listing : listing[k].id = id
    THEN CHOOSE k \in DOMAIN listing : listing[k].id = id
    ELSE 0

\* C13: after a folder reordering with the list folderIds every stored
\* folder whose id is in the list has the positional index of that id as its
\* `order`, and the listing returned is sorted by (order, createdAt), so that
\* two listed folders come in the order of the list.
C13_FolderOrderAssigned ==
    (freq.route = "reorder-folders" /\ freq.pc = "done" /\ freq.status = 200) =>
        LET ids == freq.folderIds.a
        IN /\ \A d \in folders : \A k \in DOMAIN ids :
                 (ids[k] = d.id /\ \A j \in (k + 1)..Len(ids) : ids[j] # d.id) => d.order = k - 1
           /\ freq.listing = SortFolders(folders, ByOrderThenCreated)
           /\ \A j, k \in DOMAIN ids :
                 (j < k /\ ids[j] # ids[k] /\ FolderStored(ids[j]) /\ FolderStored(ids[k]))
                     => ListedAt(freq.listing, ids[j]) < ListedAt(freq.listing, ids[k])

\* C14: no two stored folders have the same name.
C14_FolderNamesUnique ==
    \A d, e \in folders : d.id # e.id => d.name # e.name

----------------------------------------------------------------------------
(* Properties of two overlapping requests *)

BothDone == \A r \in 1..2 : racers[r].pc = "done"

C20_ReorderFailsWitness ==
    /\ BothDone
    /\ racers[1].op = "reorder" /\ racers[1].status = 500
    /\ racers[2].op = "upload" /\ racers[2].status = 200
    /\ IdsOf(dbImages) = <<"p1", "p2", "p3">>

----------------------------------------------------------------------------
(* Properties of the delete route *)

\* the stored folder holds an entry with this id in the collection
Holds(coll, id) == \E k \in DOMAIN coll : coll[k].public_id = id

\* the stored folder is the one the request loaded
FolderAsLoaded == req.images = dbImages /\ req.videos = dbVideos

\* a step changes the stored folder / the CDN
FolderWritten == dbImages' # dbImages \/ dbVideos' # dbVideos
CdnChanged == cdnImages' # cdnImages \/ cdnVideos' # cdnVideos

\* C24: a delete request removes an entry from the stored folder only after
\* the CDN destroy call for its id has resolved; when the destroy call
\* rejects the request answers 500 and the stored folder is as loaded, with
\* the entry still in it; when the id is in neither collection the request
\* answers 404 without a CDN call and the stored folder is as loaded.
C24_RemovedOnlyAfterDestroy ==
    /\ []((req.op = "delete" /\ FolderFound(req.folderId)) =>
            /\ req.pc = "destroy" =>
                  /\ FolderAsLoaded
                  /\ Holds(IF req.kind = "image" THEN dbImages ELSE dbVideos, req.publicId)
            /\ (req.pc = "done" /\ req.error = "cdn") =>
                  /\ req.status = 500
                  /\ FolderAsLoaded
                  /\ Holds(IF req.kind = "image" THEN dbImages ELSE dbVideos, req.publicId)
            /\ (req.pc = "done" /\ req.status = 404) =>
                  /\ FolderAsLoaded
                  /\ ~Holds(dbImages, req.publicId) /\ ~Holds(dbVideos, req.publicId)
            /\ (req.pc = "save" \/ (req.pc = "done" /\ req.status = 200)) =>
                  req.publicId \notin (IF req.kind = "image" THEN cdnImages ELSE cdnVideos))
    /\ [][(req.op = "delete" /\ FolderWritten) =>
              (req.pc = "save" /\ req'.status = 200 /\
               Len(dbImages') + Len(dbVideos') = Len(dbImages) + Len(dbVideos) - 1)]_vars
    /\ [][(req.op = "delete" /\ CdnChanged) => (req.pc = "destroy" /\ req'.pc = "save")]_vars
    /\ [][(req.op = "delete" /\ req'.op = "delete" /\ req'.status = 404 /\ req.status # 404) =>
              (req.pc = "find" /\ ~CdnChanged /\ ~FolderWritten)]_vars

\* the destroy call for a stored image rejected: the request answered 500 and
\* the image is still in the stored folder and on the CDN
C24_Witness ==
    /\ req.op = "delete" /\ req.pc = "done" /\ req.error = "cdn"
    /\ req.kind = "image"
    /\ Holds(dbImages, req.publicId)
    /\ req.publicId \in cdnImages

\* the id was in neither collection: 404 and the folder still holds an entry
C24_MissingIdWitness ==
    /\ req.op = "delete" /\ req.pc = "done" /\ req.status = 404
    /\ Len(dbImages) + Len(dbVideos) >= 1
    /\ ~Holds(dbImages, req.publicId) /\ ~Holds(dbVideos, req.publicId)

----------------------------------------------------------------------------
(* Properties of the init-admin route *)

\* request r creates an administrator in this step
InitAdminCreates(r) == inits[r].pc = "save" /\ inits'[r].status = 200 /\ admins' # admins

\* C22: in every sequence and every interleaving of init-admin requests, the
\* route creates an administrator only while the store holds none and only
\* for the environment-configured email and password.
C22_InitAdminOnlyWhenNone ==
    [][\A r \in 1..2 :
          InitAdminCreates(r) =>
              /\ admins = {}
              /\ inits[r].email = EnvAdminEmail /\ inits[r].password = EnvAdminPassword]_vars

\* both requests counted no administrator and both created one: the store
\* holds two administrators with the same email
C22_TwoInitialAdmins ==
    /\ \A r \in 1..2 : inits[r].pc = "done" /\ inits[r].status = 200
    /\ Cardinality(admins) = 2
    /\ \A a \in admins : a.email = NormalizeEmail(EnvAdminEmail)

====
